---- MODULE Spec2Model ----
(***************************************************************************)
(* ZenB kernel: the pure event-sourced breathing-session state machine     *)
(* (PureZenBKernel.ts), its safety guard, the session-completion circuit   *)
(* breaker of the settings store and the driver hook that feeds them.      *)
(*                                                                         *)
(* Units.  Timestamps are milliseconds, as Date.now() gives them.          *)
(* phaseDuration is in seconds, as the pattern table gives it.  The two    *)
(* derived fields phaseElapsed and sessionDuration are kept in             *)
(* milliseconds (the code's value times 1000) so that they stay integral;  *)
(* every comparison against seconds multiplies the seconds by MsPerSec.    *)
(* Belief fields are kept in hundredths (0.95 is 95).                      *)
(***************************************************************************)
EXTENDS Integers, Sequences, FiniteSets, TLC

VARIABLES
  now,          \* the wall clock, Date.now()
  state,        \* PureZenBKernel.state : RuntimeState
  eventLog,     \* PureZenBKernel.eventLog
  middlewares,  \* PureZenBKernel.middlewares, in registration order
  subscribers,  \* PureZenBKernel.subscribers, in insertion order
  userSettings, \* useSettingsStore: userSettings (safetyRegistry, lastUsedPattern)
  history,      \* useSettingsStore: history, newest first
  selectedPatternId, \* Footer's selectedPatternId prop
  lastCall,     \* history: the last API call, its argument and the events it logged
  pauseMark,    \* history: when the current pause began and whether anything was dispatched since
  ptCount,      \* history: PHASE_TRANSITIONs tick has dispatched since the pattern was bound
  outcomes,     \* history: per pattern, the outcome and time of every session completion
  estimator,    \* PureZenBKernel.estimator: its belief and target
  eventStore,   \* PersistentEventStore: db, writeBuffer, the flushes under way, the object store
  vitals        \* CameraVitalsEngine: buffer length, pendingFFT, the worker's queue and listeners

vars == <<now, state, eventLog, middlewares, subscribers, userSettings, history,
          selectedPatternId, lastCall, pauseMark, ptCount, outcomes, estimator,
          eventStore, vitals>>

-----------------------------------------------------------------------------
(* Bounds of the model *)

\* Date.now() when the kernel is constructed
Epoch == 100000
\* clock steps of the safety-plane and circuit-breaker runs
MaxPasses == 2
\* the clock of a paused session stops here (milliseconds after Epoch)
MaxPause == 6500
\* the clock of a tick-driven session stops here (milliseconds after Epoch)
MaxSession == 32000
\* capacity of the event log, scaled down from the code's 1000 so that
\* eviction happens within the bounds
MAX_LOG_SIZE == 2
\* session completions registered in one run
MaxCompletions == 7
\* probes registered with use() and with subscribe() in one run
MaxProbes == 1
MaxSubscribers == 2
\* the clock of a watched kernel stops here (milliseconds after Epoch)
MaxWatch == 8000
\* length of a session followed past the guard's tenth second
MaxError == 17000
\* events handed to the persistent store, and how long its clock runs
MaxAppends == 3
MaxStore == 4000
\* FFT requests the vitals engine posts
MaxRequests == 3

MsPerSec == 1000

-----------------------------------------------------------------------------
(* types.ts *)

PhaseOrder == <<"inhale", "holdIn", "exhale", "holdOut">>

Timings(i, hi, e, ho) == [inhale |-> i, holdIn |-> hi, exhale |-> e, holdOut |-> ho]

BREATHING_PATTERNS ==
  [id \in {"4-7-8", "box", "calm", "coherence", "deep-relax", "7-11", "awake",
           "triangle", "tactical", "buteyko", "wim-hof"} |->
     CASE id = "4-7-8"      -> [id |-> id, timings |-> Timings(4, 7, 8, 0),  tier |-> 1]
       [] id = "box"        -> [id |-> id, timings |-> Timings(4, 4, 4, 4),  tier |-> 1]
       [] id = "calm"       -> [id |-> id, timings |-> Timings(4, 0, 6, 0),  tier |-> 1]
       [] id = "coherence"  -> [id |-> id, timings |-> Timings(6, 0, 6, 0),  tier |-> 2]
       [] id = "deep-relax" -> [id |-> id, timings |-> Timings(4, 0, 8, 0),  tier |-> 1]
       [] id = "7-11"       -> [id |-> id, timings |-> Timings(7, 0, 11, 0), tier |-> 2]
       [] id = "awake"      -> [id |-> id, timings |-> Timings(4, 0, 2, 0),  tier |-> 2]
       [] id = "triangle"   -> [id |-> id, timings |-> Timings(4, 4, 4, 0),  tier |-> 1]
       [] id = "tactical"   -> [id |-> id, timings |-> Timings(5, 5, 5, 5),  tier |-> 2]
       [] id = "buteyko"    -> [id |-> id, timings |-> Timings(3, 0, 3, 4),  tier |-> 3]
       [] id = "wim-hof"    -> [id |-> id, timings |-> Timings(2, 0, 1, 15), tier |-> 3]]

\* state.pattern === null; a bound pattern is held by its id
NoPattern == "null"

\* state.lastObservation === null
NoObservation == [present |-> FALSE]

-----------------------------------------------------------------------------
(* PureZenBKernel.ts *)

createInitialState(t) ==
  [version |-> 2,
   status |-> "IDLE",
   bootTimestamp |-> t,
   lastUpdateTimestamp |-> t,
   pattern |-> NoPattern,
   phase |-> "inhale",
   phaseStartTime |-> 0,
   phaseDuration |-> 0,
   cycleCount |-> 0,
   sessionStartTime |-> 0,
   belief |-> [arousal |-> 50, attention |-> 50, rhythm_alignment |-> 0,
               arousal_variance |-> 20, attention_variance |-> 20,
               rhythm_variance |-> 30, prediction_error |-> 0, confidence |-> 0],
   safetyRegistry |-> << >>,
   phaseElapsed |-> 0,
   sessionDuration |-> 0,
   lastObservation |-> NoObservation]

\* RESUME forgetting to shift the phase start
pauseDuration_none(s, event) == 0

\* RESUME: const pauseDuration
pauseDuration(s, event) == event.timestamp - s.lastUpdateTimestamp

\* a load that keeps the entries the loaded registry does not name
loadedRegistry_merged(s, event) ==
  [id \in DOMAIN s.safetyRegistry \cup DOMAIN event.registry |->
     IF id \in DOMAIN event.registry THEN event.registry[id] ELSE s.safetyRegistry[id]]

\* safetyRegistry: { ...event.registry }
loadedRegistry(s, event) == event.registry

\* BREATHING_PATTERNS is a plain object literal, so BREATHING_PATTERNS[patternId]
\* also answers for the members every object inherits from Object.prototype
InheritedKeys == {"constructor"}

\* reduce throws a TypeError: an inherited member passes `if (!pattern)` and
\* has no timings, and pattern.timings.inhale reads a property of undefined
throwsTypeError(s, event) ==
  /\ event.type = "LOAD_PROTOCOL"
  /\ s.status # "SAFETY_LOCK"
  /\ event.patternId \in InheritedKeys

\* a load that a locked kernel obeys
loadable_always(s) == TRUE

\* if (state.status === 'SAFETY_LOCK') return state, read as the test to go on
loadable(s) == s.status # "SAFETY_LOCK"

\* a load that keeps the belief of the pattern before
loadedBelief_kept(s) == s.belief

\* belief: { ...state.belief, rhythm_alignment: 0, prediction_error: 0, confidence: 0 }
loadedBelief(s) ==
  [s.belief EXCEPT !.rhythm_alignment = 0, !.prediction_error = 0, !.confidence = 0]

\* a start that needs no pattern
startable_always(s) == TRUE

\* if (!state.pattern) return state, read as the test to go on
startable(s) == s.pattern # NoPattern

\* a start that a running or paused session refuses
startedStatus_onceOnly(s) == IF s.status \in {"RUNNING", "PAUSED"} THEN s.status ELSE "RUNNING"

\* status: 'RUNNING'
startedStatus(s) == "RUNNING"

\* a halt that only an active session obeys
haltedStatus_whenActive(s) == IF s.status \in {"RUNNING", "PAUSED"} THEN "HALTED" ELSE s.status

\* status: 'HALTED'
haltedStatus(s) == "HALTED"

\* a resume that also revives a halted session
resumable_halted(s) == s.status \in {"PAUSED", "HALTED"}

\* if (state.status !== 'PAUSED') return state, read as the test to go on
resumable(s) == s.status = "PAUSED"

\* the duration of the phase that is left
newDuration_left(s, event) == BREATHING_PATTERNS[s.pattern].timings[event.from]

\* const newDuration = state.pattern.timings[event.to]
newDuration(s, event) == BREATHING_PATTERNS[s.pattern].timings[event.to]

reduce(s, event) ==
  CASE event.type = "BOOT" ->
         [s EXCEPT !.status = "IDLE", !.lastUpdateTimestamp = event.timestamp]
    [] event.type = "LOAD_PROTOCOL" ->
         IF ~loadable(s) THEN s
         ELSE IF event.patternId \notin DOMAIN BREATHING_PATTERNS THEN s
         ELSE [s EXCEPT !.pattern = event.patternId,
                        !.phase = "inhale",
                        !.phaseStartTime = event.timestamp,
                        !.phaseDuration = BREATHING_PATTERNS[event.patternId].timings.inhale,
                        !.cycleCount = 0,
                        !.sessionStartTime = 0,
                        !.belief = loadedBelief(s),
                        !.lastUpdateTimestamp = event.timestamp]
    [] event.type = "START_SESSION" ->
         IF ~startable(s) THEN s
         ELSE [s EXCEPT !.status = startedStatus(s),
                        !.sessionStartTime = event.timestamp,
                        !.phaseStartTime = event.timestamp,
                        !.lastUpdateTimestamp = event.timestamp]
    [] event.type = "INTERRUPTION" ->
         IF s.status # "RUNNING" THEN s
         ELSE [s EXCEPT !.status = "PAUSED", !.lastUpdateTimestamp = event.timestamp]
    [] event.type = "RESUME" ->
         IF ~resumable(s) THEN s
         ELSE [s EXCEPT !.status = "RUNNING",
                        !.phaseStartTime = s.phaseStartTime + pauseDuration(s, event),
                        !.lastUpdateTimestamp = event.timestamp]
    [] event.type = "HALT" ->
         [s EXCEPT !.status = haltedStatus(s), !.lastUpdateTimestamp = event.timestamp]
    [] event.type = "SAFETY_INTERDICTION" ->
         [s EXCEPT !.status = "SAFETY_LOCK", !.lastUpdateTimestamp = event.timestamp]
    [] event.type = "PHASE_TRANSITION" ->
         IF s.pattern = NoPattern THEN s
         ELSE [s EXCEPT !.phase = event.to,
                        !.phaseStartTime = event.timestamp,
                        !.phaseDuration = newDuration(s, event),
                        !.lastUpdateTimestamp = event.timestamp]
    [] event.type = "CYCLE_COMPLETE" ->
         [s EXCEPT !.cycleCount = event.count, !.lastUpdateTimestamp = event.timestamp]
    [] event.type = "BELIEF_UPDATE" ->
         [s EXCEPT !.belief = event.belief, !.lastUpdateTimestamp = event.timestamp]
    [] event.type = "TICK" ->
         [s EXCEPT !.lastUpdateTimestamp = event.timestamp,
                   !.lastObservation = event.observation]
    [] event.type = "LOAD_SAFETY_REGISTRY" ->
         [s EXCEPT !.safetyRegistry = loadedRegistry(s, event),
                   !.lastUpdateTimestamp = event.timestamp]
    [] OTHER -> s

Interdiction(risk, action, t) ==
  [type |-> "SAFETY_INTERDICTION", riskLevel |-> risk, action |-> action, timestamp |-> t]

\* rule 1 testing for the wrong status
rejectStart_halted(event, s) ==
  s.status = "HALTED" /\ event.type = "START_SESSION"

\* Rule 1: Block START if locked
rejectStart(event, s) ==
  s.status = "SAFETY_LOCK" /\ event.type = "START_SESSION"

\* rule 2 with the threshold itself taken as critical
emergencyHalt_atThreshold(event, s) ==
  /\ event.type = "BELIEF_UPDATE"
  /\ event.belief.prediction_error >= 95
  /\ s.sessionDuration > 10 * MsPerSec

\* Rule 2: Emergency stop on critical prediction error
emergencyHalt(event, s) ==
  /\ event.type = "BELIEF_UPDATE"
  /\ event.belief.prediction_error > 95
  /\ s.sessionDuration > 10 * MsPerSec

\* rule 3 with the comparison turned round
patternLocked_expired(event, s, t) ==
  /\ event.type = "LOAD_PROTOCOL"
  /\ event.patternId \in DOMAIN s.safetyRegistry
  /\ s.safetyRegistry[event.patternId].safety_lock_until < t

\* Rule 3: Check pattern safety registry (t is the guard's reading of Date.now())
patternLocked(event, s, t) ==
  /\ event.type = "LOAD_PROTOCOL"
  /\ event.patternId \in DOMAIN s.safetyRegistry
  /\ s.safetyRegistry[event.patternId].safety_lock_until > t

defaultSafetyGuard(event, s, t) ==
  IF rejectStart(event, s) THEN Interdiction(100, "REJECT_START", t)
  ELSE IF emergencyHalt(event, s) THEN Interdiction(95, "EMERGENCY_HALT", t)
  ELSE IF patternLocked(event, s, t) THEN Interdiction(80, "PATTERN_LOCKED", t)
  ELSE event

Max(a, b) == IF a >= b THEN a ELSE b

computeDerivedFields(s, t) ==
  [s EXCEPT !.phaseElapsed = IF s.status = "RUNNING"
                               THEN Max(0, t - s.phaseStartTime) ELSE 0,
            !.sessionDuration = IF s.sessionStartTime > 0
                                  THEN Max(0, t - s.sessionStartTime) ELSE 0]

\* an over-full log losing the entry just pushed
shift_newest(log) == SubSeq(log, 1, Len(log) - 1)

\* this.eventLog.shift()
shift(log) == Tail(log)

\* Callbacks handed to use() and subscribe() are held by what they do.
\* audioMiddleware and hapticMiddleware play a cue and return; a probe
\* records what it is shown and then returns, throws, or dispatches again.
BuiltIn == {"audioMiddleware", "hapticMiddleware"}
Quiet == "quiet"
ThrowsOnTransition == "throwsOnTransition"
Throws == "throws"
Redispatches == "redispatches"

\* what a probe is shown when it is invoked for the nth event of a call:
\* the state it is handed, and getState() and getLogBuffer() at that moment
Seen(role, i, nth, given, k) ==
  [role |-> role, index |-> i, nth |-> nth, given |-> given,
   current |-> k.state, log |-> k.eventLog, upto |-> Len(k.logged)]

\* a dispatch that leaves this.state as it was
commit_dropped(k, enrichedState) == k

\* this.state = enrichedState
commit(k, enrichedState) == [k EXCEPT !.state = enrichedState]

\* a subscriber's exception escaping notify
caught_rethrown(k) == [k EXCEPT !.thrown = TRUE]

\* catch(e) { console.error('Subscriber error', e); }
caught(k) == k

\* mw(guardedEvent, beforeState, enrichedState) for the i-th middleware
invoke(k, i, nth, enrichedState) ==
  LET mw == k.middlewares[i]
  IN IF mw \in BuiltIn THEN k
     ELSE LET shown == [k EXCEPT !.seen = Append(@, Seen("middleware", i, nth, enrichedState, k))]
          IN IF mw = ThrowsOnTransition /\ k.logged[nth].type = "PHASE_TRANSITION"
               THEN [shown EXCEPT !.thrown = TRUE]
               ELSE shown

\* this.middlewares.forEach from the i-th on: an exception ends the loop
RECURSIVE forEachMiddleware(_, _, _, _)
forEachMiddleware(k, i, nth, enrichedState) ==
  IF i > Len(k.middlewares) \/ k.thrown THEN k
  ELSE forEachMiddleware(invoke(k, i, nth, enrichedState), i + 1, nth, enrichedState)

\* k = [state, eventLog, middlewares, subscribers, logged, seen, thrown];
\* logged collects the events this call appended, seen what its probes were
\* shown, thrown tells that an exception is on its way to the caller.
\* defaultSafetyGuard never returns null, so step 1's early return is not taken.
RECURSIVE dispatch(_, _, _)
RECURSIVE notify(_, _, _, _)

\* cb(this.state) for the i-th subscriber; nth is 0 when subscribe() calls it
callback(k, i, nth, t) ==
  LET cb == k.subscribers[i]
      shown == [k EXCEPT !.seen = Append(@, Seen("subscriber", i, nth, k.state, k))]
  IN IF cb = Throws THEN [shown EXCEPT !.thrown = TRUE]
     ELSE IF cb = Redispatches /\ k.state.status = "SAFETY_LOCK"
       THEN dispatch(shown, [type |-> "HALT", timestamp |-> t], t)
     ELSE shown

\* try { cb(this.state); } catch(e) { ... }
tryCallback(k, i, nth, t) ==
  LET called == callback(k, i, nth, t)
  IN IF called.thrown THEN caught([called EXCEPT !.thrown = FALSE]) ELSE called

\* this.subscribers.forEach from the i-th on
notify(k, i, nth, t) ==
  IF i > Len(k.subscribers) \/ k.thrown THEN k
  ELSE notify(tryCallback(k, i, nth, t), i + 1, nth, t)

\* subscribe(callback): add it to the set, then call it with the current state
subscribe(k, cb, t) ==
  LET present == \E i \in 1..Len(k.subscribers) : k.subscribers[i] = cb
      added == IF present THEN k ELSE [k EXCEPT !.subscribers = Append(@, cb)]
  IN callback(added, CHOOSE i \in 1..Len(added.subscribers) : added.subscribers[i] = cb, 0, t)

\* the function subscribe returns: this.subscribers.delete(callback)
unsubscribe(k, cb) ==
  [k EXCEPT !.subscribers = SelectSeq(@, LAMBDA c : c # cb)]

\* use(middleware)
use(k, mw) == [k EXCEPT !.middlewares = Append(@, mw)]

dispatch(k, event, t) ==
  LET beforeState == k.state
      guardedEvent == defaultSafetyGuard(event, beforeState, t)
      pushed == Append(k.eventLog, guardedEvent)
      log == IF Len(pushed) > MAX_LOG_SIZE THEN shift(pushed) ELSE pushed
      reducedState == reduce(beforeState, guardedEvent)
      enrichedState == computeDerivedFields(reducedState, t)
      updated == commit([k EXCEPT !.eventLog = log,
                                  !.logged = Append(@, guardedEvent)], enrichedState)
      nth == Len(updated.logged)
      served == forEachMiddleware(updated, 1, nth, enrichedState)
      pushedOnly == [k EXCEPT !.eventLog = log, !.logged = Append(@, guardedEvent),
                              !.thrown = TRUE]
  IN IF k.thrown THEN k
     ELSE IF throwsTypeError(beforeState, guardedEvent) THEN pushedOnly
     ELSE IF served.thrown THEN served
     ELSE notify(served, 1, nth, t)

Kernel ==
  [state |-> state, eventLog |-> eventLog, middlewares |-> middlewares,
   subscribers |-> subscribers, logged |-> << >>, seen |-> << >>, thrown |-> FALSE]

-----------------------------------------------------------------------------
(* phaseMachine.ts *)

PhaseIndex(p) == CHOOSE i \in 1..4 : PhaseOrder[i] = p

PhaseAfter(p, n) == PhaseOrder[((PhaseIndex(p) - 1 + n) % 4) + 1]

\* the sentinel stands for the fatal configuration error of an all-zero pattern
PhaseError == "ERROR"

nextPhaseSkipZero(current, pattern) ==
  LET hops == {n \in 1..4 : BREATHING_PATTERNS[pattern].timings[PhaseAfter(current, n)] # 0}
  IN IF hops = {} THEN PhaseError
     ELSE PhaseAfter(current, CHOOSE n \in hops : \A m \in hops : n <= m)

isCycleBoundary(phase) == phase = "inhale"

-----------------------------------------------------------------------------
(* AdaptiveStateEstimator.ts *)

PROTOCOL_TARGETS ==
  [parasympathetic |-> [arousal |-> 20, attention |-> 50, rhythm_alignment |-> 80],
   balanced        |-> [arousal |-> 40, attention |-> 70, rhythm_alignment |-> 90],
   sympathetic     |-> [arousal |-> 70, attention |-> 80, rhythm_alignment |-> 60],
   default         |-> [arousal |-> 50, attention |-> 60, rhythm_alignment |-> 70]]

PATTERN_TO_TARGET ==
  [id \in DOMAIN BREATHING_PATTERNS |->
     CASE id \in {"4-7-8", "deep-relax", "7-11", "buteyko"} -> "parasympathetic"
       [] id \in {"coherence", "calm", "box", "triangle", "tactical"} -> "balanced"
       [] id \in {"awake", "wim-hof"} -> "sympathetic"]

\* the target setProtocol(pattern) selects
setProtocol(pattern) ==
  IF pattern = NoPattern THEN PROTOCOL_TARGETS.default
  ELSE PROTOCOL_TARGETS[PATTERN_TO_TARGET[pattern]]

\* Math.sqrt on hundredths, rounded down
ISqrt(n) == CHOOSE r \in 0..100 : r * r <= n /\ n < (r + 1) * (r + 1)

\* a distance twice as long, cut at 1
computePredictionError_doubled(b, target) ==
  LET error_arousal == (b.arousal - target.arousal) * (b.arousal - target.arousal)
      error_attention == (b.attention - target.attention) * (b.attention - target.attention)
      error_rhythm == (b.rhythm_alignment - target.rhythm_alignment)
                        * (b.rhythm_alignment - target.rhythm_alignment)
      mse10 == 4 * error_arousal + 3 * error_attention + 3 * error_rhythm
      doubled == 2 * ISqrt(mse10 \div 10)
  IN IF doubled > 100 THEN 100 ELSE doubled

computePredictionError(b, target) ==
  LET error_arousal == (b.arousal - target.arousal) * (b.arousal - target.arousal)
      error_attention == (b.attention - target.attention) * (b.attention - target.attention)
      error_rhythm == (b.rhythm_alignment - target.rhythm_alignment)
                        * (b.rhythm_alignment - target.rhythm_alignment)
      mse10 == 4 * error_arousal + 3 * error_attention + 3 * error_rhythm
  IN ISqrt(mse10 \div 10)

\* The point estimates update() can return: correct() clamps each of them
\* into [0,1]; the grid keeps both ends of the clamp.
EstimateGrid == {0, 100}

\* update(obs, dt) as the set of its possible results.  The filter's
\* floating-point recursion is not followed; what the kernel receives is a
\* belief whose point estimates are clamped, whose prediction_error is
\* computePredictionError of them, and whose confidence is clamped.
updateOn(grid, target) ==
  {[arousal |-> a, attention |-> at, rhythm_alignment |-> r,
    arousal_variance |-> 20, attention_variance |-> 5, rhythm_variance |-> 5,
    prediction_error |->
      computePredictionError([arousal |-> a, attention |-> at, rhythm_alignment |-> r], target),
    confidence |-> 50] : a \in grid, at \in grid, r \in grid}

update(target) == updateOn(EstimateGrid, target)

\* The filter itself, followed in hundredths with dt in whole seconds; every
\* quotient is rounded down.

Undefined == -1

PROCESS_NOISE == 1
MEASUREMENT_NOISE_HR == 15
MEASUREMENT_NOISE_CONTEXT == 5
TAU_AROUSAL == 15
TAU_ATTENTION == 5
TAU_RHYTHM == 10

\* the belief and target of a new AdaptiveStateEstimator
newEstimator ==
  [belief |-> [arousal |-> 50, attention |-> 50, rhythm_alignment |-> 0,
               arousal_variance |-> 20, attention_variance |-> 20, rhythm_variance |-> 30,
               prediction_error |-> 0, confidence |-> 0],
   target |-> PROTOCOL_TARGETS.default]

Min(a, b) == IF a <= b THEN a ELSE b

\* a clamp that lets its argument through
clamp_open(value) == value

\* Math.max(0, Math.min(1, value))
clamp(value) == Max(0, Min(100, value))

\* 1 - Math.exp(-dt / tau) in hundredths, for dt of 0 s, 1 s and 10 s
Alpha(dt, tau) ==
  CASE dt = 0 -> 0
    [] dt = 1 -> (CASE tau = TAU_AROUSAL -> 6 [] tau = TAU_ATTENTION -> 18 [] tau = TAU_RHYTHM -> 10)
    [] dt = 10 -> (CASE tau = TAU_AROUSAL -> 49 [] tau = TAU_ATTENTION -> 86 [] tau = TAU_RHYTHM -> 63)

predict(e, dt) ==
  LET b == e.belief
      predicted_arousal ==
        b.arousal + (Alpha(dt, TAU_AROUSAL) * (e.target.arousal - b.arousal)) \div 100
      predicted_attention ==
        b.attention + (Alpha(dt, TAU_ATTENTION) * (e.target.attention - b.attention)) \div 100
      predicted_rhythm ==
        b.rhythm_alignment
          + (Alpha(dt, TAU_RHYTHM) * (e.target.rhythm_alignment - b.rhythm_alignment)) \div 100
  IN [arousal |-> clamp(predicted_arousal),
      attention |-> clamp(predicted_attention),
      rhythm_alignment |-> clamp(predicted_rhythm),
      arousal_variance |-> b.arousal_variance + PROCESS_NOISE * dt,
      attention_variance |-> b.attention_variance + PROCESS_NOISE * dt,
      rhythm_variance |-> b.rhythm_variance + PROCESS_NOISE * dt,
      prediction_error |-> 0,
      confidence |-> 0]

\* the Kalman gain variance / (variance + noise), in hundredths
Gain(variance, noise) == (100 * variance) \div (variance + noise)

correct(predicted, obs, dt) ==
  LET heard == /\ obs.heart_rate # Undefined
               /\ obs.hr_confidence # Undefined
               /\ obs.hr_confidence > 50
      normalized_hr == clamp(((obs.heart_rate - 50) * 100) \div 70)
      K_arousal == Gain(predicted.arousal_variance, MEASUREMENT_NOISE_HR)
      arousal == IF heard
                   THEN predicted.arousal
                          + (K_arousal * (normalized_hr - predicted.arousal)) \div 100
                   ELSE predicted.arousal
      arousal_variance ==
        IF heard THEN ((100 - K_arousal) * predicted.arousal_variance) \div 100
        ELSE predicted.arousal_variance
      isDistracted == obs.user_interaction = "pause" \/ obs.visibilty_state = "hidden"
      K_attention == Gain(predicted.attention_variance, MEASUREMENT_NOISE_CONTEXT)
      attention ==
        IF isDistracted
          THEN predicted.attention + (K_attention * (10 - predicted.attention)) \div 100
          ELSE Min(100, predicted.attention + 15 * dt)
      attention_variance ==
        IF isDistracted THEN ((100 - K_attention) * predicted.attention_variance) \div 100
        ELSE Max(5, predicted.attention_variance - 2 * dt)
      rhythm_alignment ==
        IF isDistracted THEN Max(0, predicted.rhythm_alignment - 50 * dt)
        ELSE Min(100, predicted.rhythm_alignment + 10 * dt)
      rhythm_variance ==
        IF isDistracted THEN predicted.rhythm_variance
        ELSE Max(5, predicted.rhythm_variance - 1 * dt)
  IN [predicted EXCEPT !.arousal = clamp(arousal),
                       !.attention = clamp(attention),
                       !.rhythm_alignment = clamp(rhythm_alignment),
                       !.arousal_variance = arousal_variance,
                       !.attention_variance = attention_variance,
                       !.rhythm_variance = rhythm_variance]

\* Math.pow(x, 1/3) on a product of three hundredths, rounded down
ICbrt(n) == CHOOSE r \in 0..100 : r * r * r <= n /\ n < (r + 1) * (r + 1) * (r + 1)

computeConfidence(b, obs) ==
  LET avg_variance == (b.arousal_variance + b.attention_variance + b.rhythm_variance) \div 3
      certainty == 100 - Min(100, avg_variance)
      given == IF obs.hr_confidence = Undefined THEN 0 ELSE obs.hr_confidence
      sensor_quality == IF given = 0 THEN 100 ELSE given
  IN clamp(ICbrt(certainty * sensor_quality * b.attention))

\* update(obs, dt) of the estimator e: the belief it stores and returns
updateBelief(e, obs, dt) ==
  LET corrected == correct(predict(e, dt), obs, dt)
  IN [corrected EXCEPT !.prediction_error = computePredictionError(corrected, e.target),
                       !.confidence = computeConfidence(corrected, obs)]

-----------------------------------------------------------------------------
(* PureZenBKernel.tick *)

\* a phase that ends only once its duration is exceeded
phaseOver_late(s, t) == t - s.phaseStartTime > s.phaseDuration * MsPerSec

\* elapsed >= this.state.phaseDuration
phaseOver(s, t) == t - s.phaseStartTime >= s.phaseDuration * MsPerSec

\* a CYCLE_COMPLETE that repeats the current count
completedCount_same(s) == s.cycleCount

\* count: this.state.cycleCount + 1
completedCount(s) == s.cycleCount + 1

\* a frame loop that also sequences a paused session
sequencing_paused(s) == s.status \in {"RUNNING", "PAUSED"} /\ s.pattern # NoPattern

\* if (this.state.status === 'RUNNING' && this.state.pattern)
sequencing(s) == s.status = "RUNNING" /\ s.pattern # NoPattern

\* newBelief is estimator.update(observation, dt); a sequencer error aborts
\* the tick after its BELIEF_UPDATE.
tick(k, dt, observation, newBelief, t) ==
  LET k1 == dispatch(k, [type |-> "BELIEF_UPDATE", belief |-> newBelief, timestamp |-> t], t)
      crossing == sequencing(k1.state) /\ phaseOver(k1.state, t)
      nextPhase == nextPhaseSkipZero(k1.state.phase, k1.state.pattern)
      k2 == IF crossing
              THEN dispatch(k1, [type |-> "PHASE_TRANSITION", from |-> k1.state.phase,
                                 to |-> nextPhase, timestamp |-> t], t)
              ELSE k1
      k3 == IF crossing /\ isCycleBoundary(nextPhase)
              THEN dispatch(k2, [type |-> "CYCLE_COMPLETE",
                                 count |-> completedCount(k2.state), timestamp |-> t], t)
              ELSE k2
  IN IF crossing /\ nextPhase = PhaseError THEN k1
     ELSE dispatch(k3, [type |-> "TICK", dt |-> dt, observation |-> observation,
                        timestamp |-> t], t)

loadSafetyRegistry(k, registry, t) ==
  dispatch(k, [type |-> "LOAD_SAFETY_REGISTRY", registry |-> registry, timestamp |-> t], t)

-----------------------------------------------------------------------------
(* settingsStore.ts *)

FreshProfile(patternId) ==
  [patternId |-> patternId,
   cummulative_stress_score |-> 0,
   last_incident_timestamp |-> 0,
   safety_lock_until |-> 0,
   resonance_history |-> << >>]

\* a success rule that counts a session of exactly 45 s
isSuccess_from45(durationSec, prediction_error) == durationSec >= 45 /\ prediction_error < 50

isSuccess(durationSec, prediction_error) == durationSec > 45 /\ prediction_error < 50

\* the breaker tripping one adverse session early
breakerTrips_atFive(score) == score >= 5

breakerTrips(score) == score > 5

LockMs == 24 * 60 * 60 * 1000

\* the cap dropping the newest entry instead of the oldest
keepShort_dropNewest(resonance) ==
  IF Len(resonance) > 5 THEN SubSeq(resonance, 1, 5) ELSE resonance

keepShort(resonance) == IF Len(resonance) > 5 THEN Tail(resonance) ELSE resonance

\* a trip that leaves the score where the adverse session put it
trippedScore_kept(score) == score

\* record.cummulative_stress_score = 0, "reset after lock"
trippedScore(score) == 0

\* the record registerSessionComplete leaves in registry[patternId]
updatedRecord(record, success, t) ==
  LET pushed == Append(record.resonance_history, IF success THEN 1 ELSE 0)
      score == IF success THEN record.cummulative_stress_score
               ELSE record.cummulative_stress_score + 1
      trips == ~success /\ breakerTrips(score)
  IN [record EXCEPT
        !.resonance_history = keepShort(pushed),
        !.cummulative_stress_score = IF trips THEN trippedScore(score) ELSE score,
        !.safety_lock_until = IF trips THEN t + LockMs ELSE @]

\* the registry map registerSessionComplete pushes to the kernel and stores
updatedRegistry(registry, durationSec, patternId, prediction_error, t) ==
  LET record == IF patternId \in DOMAIN registry THEN registry[patternId]
                ELSE FreshProfile(patternId)
      new == updatedRecord(record, isSuccess(durationSec, prediction_error), t)
  IN [id \in DOMAIN registry \cup {patternId} |->
        IF id = patternId THEN new ELSE registry[id]]

\* if (durationSec > 10)
recorded(durationSec) == durationSec > 10

\* the history registerSessionComplete stores: [newItem, ...history].slice(0, 100).
\* An item is kept by its durationSec and patternId; its id, timestamp, cycles
\* and finalBelief are written and never read by the code followed here.
newHistory(h, durationSec, patternId) ==
  LET newItem == [durationSec |-> durationSec, patternId |-> patternId]
      grown == <<newItem>> \o h
  IN IF recorded(durationSec) THEN SubSeq(grown, 1, Min(Len(grown), 100)) ELSE h

-----------------------------------------------------------------------------
(* Footer.tsx *)

RECURSIVE SumSeq(_)
SumSeq(seq) == IF seq = << >> THEN 0 ELSE Head(seq) + SumSeq(Tail(seq))

\* history.filter(h => h.durationSec > 60)
qualitySessions(h) == SelectSeq(h, LAMBDA item : item.durationSec > 60)

\* the stress rule read as its comment has it, an average below 0.5
stressed_belowHalf(resonance_history) ==
  Len(resonance_history) > 0 /\ 10 * SumSeq(resonance_history) < 5 * Len(resonance_history)

\* a non-empty resonance_history whose average is below 0.4
stressed(resonance_history) ==
  Len(resonance_history) > 0 /\ 10 * SumSeq(resonance_history) < 4 * Len(resonance_history)

\* resonance entries equal to 1.0, summed over the profiles of ids
RECURSIVE perfectSessions(_, _)
perfectSessions(registry, ids) ==
  IF ids = {} THEN 0
  ELSE LET id == CHOOSE x \in ids : TRUE
       IN Len(SelectSeq(registry[id].resonance_history, LAMBDA r : r = 1))
            + perfectSessions(registry, ids \ {id})

\* isPatternLocked(pattern).locked, with the store's registry and history at time t
isPatternLocked(pattern, registry, h, t) ==
  LET held == pattern.id \in DOMAIN registry
      ownLock == held /\ registry[pattern.id].safety_lock_until > t
      quality == Len(qualitySessions(h))
  IN CASE pattern.tier = 1 -> ownLock
       [] pattern.tier = 2 ->
            \/ ownLock
            \/ quality < 5
            \/ held /\ stressed(registry[pattern.id].resonance_history)
       [] pattern.tier = 3 ->
            \/ ownLock
            \/ quality < 20
            \/ perfectSessions(registry, DOMAIN registry) < 5
       [] OTHER -> ownLock

-----------------------------------------------------------------------------
(* Inputs *)

\* pattern ids handed to LOAD_PROTOCOL; "unknown" is not in BREATHING_PATTERNS
LoadIds == {"4-7-8", "unknown"}

Belief(pe) ==
  [arousal |-> 50, attention |-> 50, rhythm_alignment |-> 50,
   arousal_variance |-> 20, attention_variance |-> 20, rhythm_variance |-> 30,
   prediction_error |-> pe, confidence |-> 50]

\* beliefs a caller of dispatch may hand in: either side of the 0.95 threshold
ExternalBeliefs == {Belief(95), Belief(96)}

LockedProfile(patternId, until) ==
  [FreshProfile(patternId) EXCEPT !.safety_lock_until = until]

\* the lock of the registries below expires this long after Epoch (milliseconds)
LockSpan == 5500

\* registries handed to loadSafetyRegistry
RegistryInputs ==
  { << >>,
    [id \in {"box", "4-7-8"} |->
       IF id = "4-7-8" THEN LockedProfile(id, Epoch + LockSpan) ELSE FreshProfile(id)] }

\* the frame time the driver hands to tick, clamped to 0.1 s (milliseconds)
FrameDt == 100

Observations(t) ==
  {[timestamp |-> t, delta_time |-> FrameDt, visibilty_state |-> "visible",
    heart_rate |-> 72, hr_confidence |-> 80]}

Ev(type, t) == [type |-> type, timestamp |-> t]

LoadProtocol(id, t) == [type |-> "LOAD_PROTOCOL", patternId |-> id, timestamp |-> t]

\* events of the session control bus and of the safety plane
GuardEvents(t) ==
  {Ev("START_SESSION", t), Ev("HALT", t), Ev("BOOT", t)}
  \cup {LoadProtocol(id, t) : id \in LoadIds}
  \cup {[type |-> "BELIEF_UPDATE", belief |-> b, timestamp |-> t] : b \in ExternalBeliefs}

-----------------------------------------------------------------------------
(* History variables *)

NoPause == [active |-> FALSE]

\* pre is the state before the call, post the state it committed
PauseMarkAfter(pre, post) ==
  IF post.status # "PAUSED" THEN NoPause
  ELSE IF pre.status = "RUNNING"
    THEN [active |-> TRUE, at |-> now, elapsed |-> now - pre.phaseStartTime, quiet |-> TRUE]
  ELSE [pauseMark EXCEPT !.quiet = FALSE]

Binds(pre, logged) ==
  \E i \in 1..Len(logged) :
     /\ logged[i].type = "LOAD_PROTOCOL"
     /\ logged[i].patternId \in DOMAIN BREATHING_PATTERNS
     /\ pre.status # "SAFETY_LOCK"

Transitions(logged) ==
  Cardinality({i \in 1..Len(logged) : logged[i].type = "PHASE_TRANSITION"})

\* a call op on the kernel that ends with the kernel as k
Call(k, op) ==
  /\ state' = k.state
  /\ eventLog' = k.eventLog
  /\ middlewares' = k.middlewares
  /\ subscribers' = k.subscribers
  /\ lastCall' = [op |-> op, at |-> now, logged |-> k.logged, seen |-> k.seen,
                   thrown |-> k.thrown]
  /\ pauseMark' = PauseMarkAfter(state, k.state)
  /\ ptCount' = IF Binds(state, k.logged) THEN 0
                ELSE IF op.name = "tick" THEN ptCount + Transitions(k.logged)
                ELSE ptCount
  /\ now' = now

-----------------------------------------------------------------------------
(* eventStore.ts *)

\* a store after construction: db is null and nothing is buffered.  events
\* is the object store 'events', a map from key to record; flushes holds,
\* oldest first, what each flush under way has still to put; appended is
\* history: every event handed to append, in order.
newEventStore ==
  [db |-> FALSE, writeBuffer |-> << >>, flushes |-> << >>, events |-> << >>,
   appended |-> << >>]

\* createObjectStore('events', { keyPath: 'timestamp' })
keyPath(s, event) == event.timestamp

\* store.put(event): the record is stored under its key, in place of any
\* record already there
put(s, event) ==
  LET key == keyPath(s, event)
  IN [s EXCEPT !.events = [k \in DOMAIN @ \cup {key} |-> IF k = key THEN event ELSE @[k]]]

\* the buffer length above which append flushes at once
EmergencyFlush == 100

\* flush(), up to its first await: nothing without a db or with an empty
\* buffer; else the buffer is taken over and emptied
flush(s) ==
  IF ~s.db \/ Len(s.writeBuffer) = 0 THEN s
  ELSE [s EXCEPT !.flushes = Append(@, s.writeBuffer), !.writeBuffer = << >>]

\* append(event)
append(s, event) ==
  LET pushed == [s EXCEPT !.writeBuffer = Append(@, event), !.appended = Append(@, event)]
  IN IF Len(pushed.writeBuffer) > EmergencyFlush THEN flush(pushed) ELSE pushed

\* the keys of a map in ascending order
RECURSIVE Ascending(_)
Ascending(keys) ==
  IF keys = {} THEN << >>
  ELSE LET least == CHOOSE k \in keys : \A j \in keys : k <= j
       IN <<least>> \o Ascending(keys \ {least})

\* getRange(fromTimestamp, toTimestamp): db.getAll('events', bound(from, to))
getRange(s, fromTimestamp, toTimestamp) ==
  IF ~s.db THEN << >>
  ELSE LET keys == Ascending({k \in DOMAIN s.events : fromTimestamp <= k /\ k <= toTimestamp})
       IN [i \in 1..Len(keys) |-> s.events[keys[i]]]

\* replay(fromTimestamp)
replay(s, fromTimestamp, t) == getRange(s, fromTimestamp, t)

-----------------------------------------------------------------------------
(* CameraVitalsEngine.v2.ts *)

MIN_SAMPLES == 128

\* Math.ceil(BUFFER_DURATION * SAMPLE_RATE), the capacity of the ring buffers
BufferSize == 8 * 30

\* an engine after construction.  samples is filteredBuffer.length; posted
\* counts the FFT requests, each known by its number; worker holds the
\* requests the worker has not answered yet, listeners the 'message'
\* handlers registered on it (each by the request it was registered for),
\* awaiting the request whose promise is pending (0 for none); returned is
\* history: for every computeHeartRate that returned measured vitals, its
\* request and the request its response answers.
newEngine ==
  [ready |-> FALSE, samples |-> 0, pendingFFT |-> FALSE, posted |-> 0,
   worker |-> << >>, listeners |-> << >>, awaiting |-> 0, returned |-> << >>]

\* computeHeartRate(motion), up to its await: the request is posted and a
\* handler registered; the 1 s timer is armed
computeHeartRate(e) ==
  IF ~e.ready THEN e
  ELSE LET request == e.posted + 1
       IN [e EXCEPT !.pendingFFT = TRUE,
                    !.posted = request,
                    !.worker = Append(@, request),
                    !.listeners = Append(@, request),
                    !.awaiting = request]

\* processFrame(video) with or without a face in the frame
processFrame(e, face) ==
  IF ~face THEN e
  ELSE LET pushed == [e EXCEPT !.samples = IF @ < BufferSize THEN @ + 1 ELSE @]
       IN IF pushed.samples >= MIN_SAMPLES /\ ~pushed.pendingFFT
            THEN computeHeartRate(pushed)
            ELSE pushed

\* finally { this.pendingFFT = false; }
settled(e) == [e EXCEPT !.pendingFFT = FALSE, !.awaiting = 0]

\* setTimeout(() => reject(new Error('FFT Timeout')), 1000) fires: the call
\* returns the default vitals; its handler stays registered
timeout(e) == settled(e)

\* a 'message' event answering the given request: every registered handler
\* runs and removes itself; the one whose promise is pending resolves it
\* (or rejects it for data of type 'error') and the call returns
message(e, answered, ok) ==
  LET heard == [e EXCEPT !.listeners = << >>]
  IN IF e.awaiting = 0 \/ ~\E i \in 1..Len(e.listeners) : e.listeners[i] = e.awaiting
       THEN heard
     ELSE IF ~ok THEN settled(heard)
     ELSE settled([heard EXCEPT !.returned =
                     Append(@, [request |-> e.awaiting, response |-> answered])])

-----------------------------------------------------------------------------
(* Actions *)

\* time passes between two calls
Advance(steps, limit) ==
  /\ \E d \in steps : now + d <= Epoch + limit /\ now' = now + d
  /\ UNCHANGED <<state, eventLog, middlewares, subscribers, userSettings, history,
               selectedPatternId, lastCall, pauseMark, ptCount, outcomes, estimator,
               eventStore, vitals>>

\* kernel.dispatch(e) for some e of events
DispatchOf(events) ==
  /\ \E e \in events :
       Call(dispatch(Kernel, e, now), [name |-> "dispatch", event |-> e])
  /\ UNCHANGED <<userSettings, history, selectedPatternId, outcomes, estimator, eventStore, vitals>>

\* kernel.tick(dt, observation), the estimator answering with one of beliefs
TickOf(beliefs) ==
  /\ \E o \in Observations(now), b \in beliefs :
       /\ Call(tick(Kernel, FrameDt, o, b, now), [name |-> "tick", observation |-> o])
       /\ estimator' = [belief |-> b, target |-> setProtocol(state.pattern)]
  /\ UNCHANGED <<userSettings, history, selectedPatternId, outcomes, eventStore, vitals>>

Tick == TickOf(update(setProtocol(state.pattern)))

\* a tick whose estimate has settled on one point of the grid
SteadyGrid == {0}

SteadyTick == TickOf(updateOn(SteadyGrid, setProtocol(state.pattern)))

\* kernel.loadSafetyRegistry(m)
LoadSafetyRegistry ==
  /\ \E m \in RegistryInputs :
       Call(loadSafetyRegistry(Kernel, m, now), [name |-> "loadSafetyRegistry", registry |-> m])
  /\ UNCHANGED <<userSettings, history, selectedPatternId, outcomes, estimator, eventStore, vitals>>

\* the kernel singleton after its constructor, and the store's defaults
Init ==
  LET k == dispatch([state |-> createInitialState(Epoch), eventLog |-> << >>,
                     middlewares |-> <<"audioMiddleware", "hapticMiddleware">>,
                     subscribers |-> << >>, logged |-> << >>, seen |-> << >>,
                     thrown |-> FALSE],
                    Ev("BOOT", Epoch), Epoch)
  IN /\ now = Epoch
     /\ state = k.state
     /\ eventLog = k.eventLog
     /\ middlewares = k.middlewares
     /\ subscribers = k.subscribers
     /\ userSettings = [safetyRegistry |-> << >>, lastUsedPattern |-> "4-7-8"]
     /\ history = << >>
     /\ selectedPatternId = "4-7-8"
     /\ lastCall = [op |-> [name |-> "constructor"], at |-> Epoch, logged |-> k.logged,
                    seen |-> k.seen, thrown |-> k.thrown]
     /\ pauseMark = NoPause
     /\ ptCount = 0
     /\ outcomes = [id \in DOMAIN BREATHING_PATTERNS |-> << >>]
     /\ estimator = newEstimator
     /\ eventStore = newEventStore
     /\ vitals = newEngine

-----------------------------------------------------------------------------
(* Spec: the safety plane.  Any caller dispatches the control-bus events  *)
(* and loads registries while the clock moves in steps of 5.5 s.          *)

Pass == Advance({LockSpan}, MaxPasses * LockSpan)

Dispatch == DispatchOf(GuardEvents(now))

Next == Pass \/ Dispatch \/ LoadSafetyRegistry

Spec == Init /\ [][Next]_vars

-----------------------------------------------------------------------------
(* SpecRegistry: the circuit breaker.  Sessions of a pattern complete     *)
(* after 46 s with final prediction errors on either side of the success   *)
(* rule, and each completion pushes the registry to the kernel.  (Sessions *)
(* too short to succeed are stopped in SpecFooter.)                        *)

Durations == {46}

CompletedIds == {"box"}

RegistryBeliefs == {Belief(49), Belief(50)}

\* an outcome as the success rule defines it: 0 adverse, 1 success
Outcome(durationSec, prediction_error) ==
  IF durationSec <= 45 \/ prediction_error >= 50 THEN 0 ELSE 1

Completions ==
  LET RECURSIVE Sum(_)
      Sum(ids) == IF ids = {} THEN 0
                  ELSE LET id == CHOOSE x \in ids : TRUE
                       IN Len(outcomes[id]) + Sum(ids \ {id})
  IN Sum(CompletedIds)

\* record.resonance_history.push and the score update write through the
\* record object, which every registry map built by earlier completions
\* shares: the logged LOAD_SAFETY_REGISTRY payloads show the new record too
Shared(log, patternId, record) ==
  [i \in 1..Len(log) |->
     IF log[i].type = "LOAD_SAFETY_REGISTRY" /\ patternId \in DOMAIN log[i].registry
       THEN [log[i] EXCEPT !.registry[patternId] = record]
       ELSE log[i]]

\* the profile of patternId that a state s, obtained from getState() before
\* the completion, shows once the completion is over: the registry the
\* kernel holds came from the store, so the record the completion writes
\* through is the very object s.safetyRegistry refers to
heldProfile(s, stored, patternId, record) ==
  IF patternId \in DOMAIN s.safetyRegistry \cap DOMAIN stored THEN record
  ELSE FreshProfile(patternId)

\* the kernel's belief is set by the estimator's last BELIEF_UPDATE
SetBelief ==
  DispatchOf({[type |-> "BELIEF_UPDATE", belief |-> b, timestamp |-> now] :
                b \in RegistryBeliefs})

\* useSettingsStore.registerSessionComplete(durationSec, patternId, cycles);
\* the streak it also writes is not kept here
RegisterSessionCompleteOf(durations, limit) ==
  \E durationSec \in durations, patternId \in CompletedIds :
    LET kernelState == state
        registry == updatedRegistry(userSettings.safetyRegistry, durationSec, patternId,
                                    kernelState.belief.prediction_error, now)
        aliased == [Kernel EXCEPT !.eventLog = Shared(eventLog, patternId, registry[patternId])]
    IN /\ Completions < limit
       /\ Call(loadSafetyRegistry(aliased, registry, now),
               [name |-> "registerSessionComplete", patternId |-> patternId,
                durationSec |-> durationSec,
                held |-> heldProfile(kernelState, userSettings.safetyRegistry, patternId,
                                     registry[patternId])])
       /\ userSettings' = [userSettings EXCEPT !.safetyRegistry = registry,
                                               !.lastUsedPattern = patternId]
       /\ outcomes' = [outcomes EXCEPT ![patternId] =
                         Append(@, Outcome(durationSec, kernelState.belief.prediction_error))]
       /\ history' = newHistory(history, durationSec, patternId)
       /\ UNCHANGED <<selectedPatternId, estimator, eventStore, vitals>>

RegisterSessionComplete == RegisterSessionCompleteOf(Durations, MaxCompletions)

NextRegistry == Pass \/ SetBelief \/ RegisterSessionComplete

SpecRegistry == Init /\ [][NextRegistry]_vars

-----------------------------------------------------------------------------
(* useBreathEngine.ts: the driver hook *)

\* no session is active: the store's isActive is false while the kernel is
\* neither RUNNING nor PAUSED
Inactive == state.status \notin {"RUNNING", "PAUSED"}

\* effect 1, isActive turned true: LOAD_PROTOCOL, then START_SESSION
StartEffectOf(ids) ==
  /\ Inactive
  /\ \E id \in ids :
       LET k1 == dispatch(Kernel, LoadProtocol(id, now), now)
           k2 == dispatch(k1, Ev("START_SESSION", now), now)
       IN Call(k2, [name |-> "startEffect", patternId |-> id])
  /\ UNCHANGED <<userSettings, history, selectedPatternId, outcomes, estimator, eventStore, vitals>>

\* effect 2, isPaused toggled: INTERRUPTION or RESUME
PauseEffect ==
  DispatchOf({[type |-> "INTERRUPTION", kind |-> "pause", timestamp |-> now],
              Ev("RESUME", now)})

-----------------------------------------------------------------------------
(* SpecPause: a session that is paused and resumed.  The clock moves in    *)
(* steps of 1.5 s and 5 s; ticks and registry loads may come at any time,  *)
(* also while the session is paused.                                       *)

PauseSteps == {1500, 5000}

PauseIds == {"box"}

StartPause == StartEffectOf(PauseIds)

PassPause == Advance(PauseSteps, MaxPause)

NextPause == PassPause \/ StartPause \/ PauseEffect \/ LoadSafetyRegistry \/ SteadyTick

SpecPause == Init /\ [][NextPause]_vars

-----------------------------------------------------------------------------
(* SpecSession: a session started when the kernel is constructed and then  *)
(* driven by ticks.  The clock is followed while the session runs, in      *)
(* steps of 3.9 s and 4 s, and a tick may come at any of its readings.     *)

SessionSteps == {3900, 4000}

SessionIds == {"box", "4-7-8"}

StartSession == StartEffectOf(SessionIds)

PassSession == state.status = "RUNNING" /\ Advance(SessionSteps, MaxSession)

NextSession == PassSession \/ StartSession \/ Tick

SpecSession == Init /\ [][NextSession]_vars

-----------------------------------------------------------------------------
(* SpecObservers: a kernel with probes.  Probes are registered with use()  *)
(* and subscribe() before the first event is dispatched; then a           *)
(* registry that locks 4-7-8 may be loaded, and sessions of awake and of   *)
(* 4-7-8 are started and ticked while the clock moves in steps of 4 s.     *)

MiddlewareProbes == {Quiet, ThrowsOnTransition}

SubscriberProbes == {Quiet, Throws, Redispatches}

\* nothing has been dispatched since the constructor
Mounting == lastCall.op.name \in {"constructor", "use", "subscribe"}

\* kernel.use(mw)
Use ==
  /\ Mounting
  /\ Len(middlewares) < Cardinality(BuiltIn) + MaxProbes
  /\ \E mw \in MiddlewareProbes : Call(use(Kernel, mw), [name |-> "use", middleware |-> mw])
  /\ UNCHANGED <<userSettings, history, selectedPatternId, outcomes, estimator, eventStore, vitals>>

\* kernel.subscribe(cb)
Subscribe ==
  /\ Mounting
  /\ Len(subscribers) < MaxSubscribers
  /\ \E cb \in SubscriberProbes :
       Call(subscribe(Kernel, cb, now), [name |-> "subscribe", callback |-> cb])
  /\ UNCHANGED <<userSettings, history, selectedPatternId, outcomes, estimator, eventStore, vitals>>

WatchSteps == {4000}

WatchedIds == {"awake", "4-7-8"}

PassWatched == Advance(WatchSteps, MaxWatch)

StartWatched == StartEffectOf(WatchedIds)

\* onRehydrateStorage: kernel.loadSafetyRegistry(m) when the app starts, here
\* with the stored registry that locks 4-7-8
Rehydrate ==
  /\ Mounting
  /\ \E m \in RegistryInputs :
       /\ m # << >>
       /\ Call(loadSafetyRegistry(Kernel, m, now), [name |-> "loadSafetyRegistry", registry |-> m])
  /\ UNCHANGED <<userSettings, history, selectedPatternId, outcomes, estimator, eventStore, vitals>>

NextObservers ==
  PassWatched \/ Use \/ Subscribe \/ Rehydrate \/ StartWatched \/ SteadyTick

SpecObservers == Init /\ [][NextObservers]_vars

-----------------------------------------------------------------------------
(* SpecEstimator: the kernel ticked with the filter followed step by step. *)
(* The caller hands in frame times of 0 s and 10 s, with the page visible  *)
(* or hidden and a heart rate absent, out of range below or above, or of   *)
(* too low a confidence; a protocol is loaded in between.                  *)

\* animation frames the filter is followed for
MaxFrames == 3

\* the time between two frames (milliseconds)
FrameGap == 10000

EstimatorDts == {0, 10}

Vitals ==
  {[heart_rate |-> Undefined, hr_confidence |-> Undefined],
   [heart_rate |-> 40, hr_confidence |-> 80],
   [heart_rate |-> 180, hr_confidence |-> 100],
   [heart_rate |-> 72, hr_confidence |-> 50]}

EstimatorObservations(t, dt) ==
  {[timestamp |-> t, delta_time |-> dt * MsPerSec, visibilty_state |-> v,
    user_interaction |-> "undefined",
    heart_rate |-> h.heart_rate, hr_confidence |-> h.hr_confidence] :
      v \in {"visible", "hidden"}, h \in Vitals}

\* kernel.tick(dt, observation) with estimator.update computed, once a frame
FilteredTick ==
  /\ state.lastUpdateTimestamp < now
  /\ \E dt \in EstimatorDts :
       \E o \in EstimatorObservations(now, dt) :
         LET aimed == [estimator EXCEPT !.target = setProtocol(state.pattern)]
             newBelief == updateBelief(aimed, o, dt)
         IN /\ Call(tick(Kernel, dt * MsPerSec, o, newBelief, now),
                    [name |-> "tick", observation |-> o])
            /\ estimator' = [aimed EXCEPT !.belief = newBelief]
  /\ UNCHANGED <<userSettings, history, selectedPatternId, outcomes, eventStore, vitals>>

EstimatorIds == {"awake"}

\* a protocol is loaded once
LoadEstimated ==
  /\ state.pattern = NoPattern
  /\ DispatchOf({LoadProtocol(id, now) : id \in EstimatorIds})

PassEstimator == Advance({FrameGap}, MaxFrames * FrameGap)

NextEstimator == PassEstimator \/ FilteredTick \/ LoadEstimated

SpecEstimator == Init /\ [][NextEstimator]_vars

-----------------------------------------------------------------------------
(* SpecFooter: the pattern picker.  The store is rehydrated at start from  *)
(* one of the persisted histories and registries below; cards are          *)
(* selected, the hero button pressed and sessions stopped while the clock  *)
(* moves in steps of 5.5 s.                                                *)

\* n persisted sessions of the given duration
Sessions(n, durationSec) == [i \in 1..n |-> [durationSec |-> durationSec, patternId |-> "box"]]

\* either side of the 5 and 20 quality sessions, and of the 60 s a quality
\* session must exceed
PersistedHistories ==
  {Sessions(0, 61), Sessions(4, 61), Sessions(5, 61), Sessions(19, 61), Sessions(20, 61),
   Sessions(20, 60)}

\* one adverse session counts one stress point
Profile(patternId, resonance, until) ==
  [patternId |-> patternId,
   cummulative_stress_score |->
     IF until > 0 THEN 0 ELSE Len(SelectSeq(resonance, LAMBDA r : r = 0)),
   last_incident_timestamp |-> 0,
   safety_lock_until |-> until,
   resonance_history |-> resonance]

Registry(profiles) ==
  [id \in {q.patternId : q \in profiles} |-> CHOOSE q \in profiles : q.patternId = id]

\* nothing persisted; awake at an average of exactly 0.4 with five perfect
\* sessions in all; awake below 0.4 with five perfect sessions in all; awake
\* below 0.4 and four perfect sessions; wim-hof and 4-7-8 under a lock that
\* ends LockSpan after Epoch
PersistedRegistries ==
  { << >>,
    Registry({Profile("awake", <<0, 1, 0, 1, 0>>, 0), Profile("box", <<1, 1, 1>>, 0)}),
    Registry({Profile("awake", <<0, 0, 1>>, 0), Profile("box", <<1, 1, 1, 1>>, 0)}),
    Registry({Profile("awake", <<0, 0, 1>>, 0), Profile("box", <<1, 1, 1>>, 0)}),
    Registry({Profile("wim-hof", <<0, 0, 0, 0, 0>>, Epoch + LockSpan),
              Profile("4-7-8", <<0, 0, 0, 0, 0>>, Epoch + LockSpan),
              Profile("box", <<1, 1, 1, 1, 1>>, 0)}) }

\* zustand persist restores userSettings and history, then onRehydrateStorage
\* loads the registry into the kernel
RehydrateStore ==
  /\ lastCall.op.name = "constructor"
  /\ \E h \in PersistedHistories, r \in PersistedRegistries :
       /\ Call(loadSafetyRegistry(Kernel, r, now), [name |-> "rehydrate", registry |-> r])
       /\ userSettings' = [userSettings EXCEPT !.safetyRegistry = r]
       /\ history' = h
  /\ UNCHANGED <<selectedPatternId, outcomes, estimator, eventStore, vitals>>

\* startSession(id) as the driver carries it out: effect 1 dispatches
\* LOAD_PROTOCOL and START_SESSION; a kernel left in SAFETY_LOCK makes the
\* subscriber call stopSession, and effect 1 then dispatches HALT
startSession(k, id, t) ==
  LET k1 == dispatch(k, LoadProtocol(id, t), t)
      k2 == dispatch(k1, Ev("START_SESSION", t), t)
  IN IF k2.state.status = "SAFETY_LOCK"
       THEN dispatch(k2, [type |-> "HALT", reason |-> "cleanup", timestamp |-> t], t)
       ELSE k2

\* handleStart(patternId): setLastUsedPattern, then startSession
handleStart(name, patternId) ==
  /\ Call(startSession(Kernel, patternId, now), [name |-> name, patternId |-> patternId])
  /\ userSettings' = [userSettings EXCEPT !.lastUsedPattern = patternId]
  /\ UNCHANGED <<history, outcomes, estimator, eventStore, vitals>>

\* the cards offered
FooterIds == {"box", "awake", "wim-hof"}

\* a pattern card is pressed; a locked pattern is refused
HandleSelectPattern ==
  /\ Inactive
  /\ \E id \in FooterIds :
       IF isPatternLocked(BREATHING_PATTERNS[id], userSettings.safetyRegistry, history, now)
         THEN UNCHANGED vars
         ELSE /\ selectedPatternId' = id
              /\ handleStart("handleSelectPattern", id)

\* the hero button is pressed: handleStart(selectedPatternId)
HeroStart ==
  /\ Inactive
  /\ handleStart("handleStart", selectedPatternId)
  /\ UNCHANGED selectedPatternId

\* the stop button, after at least one clock step of session: finishSession
\* registers the session, and effect 1 dispatches HALT
HandleStop ==
  /\ ~Inactive
  /\ state.sessionStartTime < now
  /\ LET kernelState == state
         patternId == kernelState.pattern
         durationSec == (now - kernelState.sessionStartTime) \div MsPerSec
         registry == updatedRegistry(userSettings.safetyRegistry, durationSec, patternId,
                                     kernelState.belief.prediction_error, now)
         aliased == [Kernel EXCEPT !.eventLog = Shared(eventLog, patternId, registry[patternId])]
         loaded == loadSafetyRegistry(aliased, registry, now)
         halted == dispatch(loaded, [type |-> "HALT", reason |-> "cleanup", timestamp |-> now], now)
     IN /\ Call(halted, [name |-> "handleStop", patternId |-> patternId])
        /\ userSettings' = [userSettings EXCEPT !.safetyRegistry = registry,
                                                !.lastUsedPattern = patternId]
        /\ history' = newHistory(history, durationSec, patternId)
        /\ outcomes' = [outcomes EXCEPT ![patternId] =
                          Append(@, Outcome(durationSec, kernelState.belief.prediction_error))]
  /\ UNCHANGED <<selectedPatternId, estimator, eventStore, vitals>>

NextFooter == Pass \/ RehydrateStore \/ HandleSelectPattern \/ HeroStart \/ HandleStop

SpecFooter == Init /\ [][NextFooter]_vars

-----------------------------------------------------------------------------
(* SpecReducer: the whole event bus.  Any caller dispatches every kind of  *)
(* event, one kind the reducer does not know among them, in every status,  *)
(* and loads registries; the clock moves once, by 5.5 s.                   *)

\* an event type outside the KernelEvent union
UnknownKind == "CALIBRATE"

\* pattern ids handed to LOAD_PROTOCOL: a built-in pattern, an id of no
\* pattern, and an id of no pattern that names an inherited member
ReducerIds == {"4-7-8", "unknown"} \cup InheritedKeys

BusEvents(t) ==
  {Ev(type, t) : type \in {"START_SESSION", "HALT", "INTERRUPTION", "RESUME", UnknownKind}}
  \cup {LoadProtocol(id, t) : id \in ReducerIds}
  \cup {[type |-> "PHASE_TRANSITION", from |-> "inhale", to |-> "holdIn", timestamp |-> t]}
  \cup {[type |-> "BELIEF_UPDATE", belief |-> Belief(95), timestamp |-> t]}

DispatchBus == DispatchOf(BusEvents(now))

\* one step of the clock, to the instant the lock of RegistryInputs expires
PassReducer == Advance({LockSpan}, LockSpan)

NextReducer == PassReducer \/ DispatchBus \/ LoadSafetyRegistry

SpecReducer == Init /\ [][NextReducer]_vars

-----------------------------------------------------------------------------
(* SpecEffects: the events that take effect.  A pattern is loaded, and a   *)
(* session started, paused, resumed and halted, in every status and in any *)
(* order, between belief updates and completed cycles; registries are      *)
(* loaded and the clock moves once, by 5.5 s.                              *)

EffectEvents(t) ==
  {Ev(type, t) : type \in {"START_SESSION", "HALT", "INTERRUPTION", "RESUME"}}
  \cup {LoadProtocol("4-7-8", t)}
  \cup {[type |-> "BELIEF_UPDATE", belief |-> Belief(95), timestamp |-> t]}
  \cup {[type |-> "CYCLE_COMPLETE", count |-> 1, timestamp |-> t]}

DispatchEffect == DispatchOf(EffectEvents(now))

NextEffects == PassReducer \/ DispatchEffect \/ LoadSafetyRegistry

SpecEffects == Init /\ [][NextEffects]_vars

-----------------------------------------------------------------------------
(* Claims about the safety plane *)

Last(seq) == seq[Len(seq)]

\* this step is a call of the named API (time passes only between calls)
Called(name) == now' = now /\ lastCall'.op.name = name

\* this step is dispatch(e) with e of the given type
Dispatched(type) == Called("dispatch") /\ lastCall'.op.event.type = type

\* the registry of s holds a lock for pattern id that has not expired at t
LockedAt(s, id, t) ==
  id \in DOMAIN s.safetyRegistry /\ s.safetyRegistry[id].safety_lock_until > t

\* C1: dispatching LOAD_PROTOCOL{P} while the registry locks P leaves the
\* bound pattern as it was, sets status SAFETY_LOCK, and logs only the
\* PATTERN_LOCKED interdiction, which is then the last event of the log.
C1_LockoutEnforcement ==
  [][(Dispatched("LOAD_PROTOCOL") /\ LockedAt(state, lastCall'.op.event.patternId, now))
       => /\ state'.pattern = state.pattern
          /\ state'.status = "SAFETY_LOCK"
          /\ Last(eventLog').type = "SAFETY_INTERDICTION"
          /\ Last(eventLog').action = "PATTERN_LOCKED"
          /\ \A i \in 1..Len(lastCall'.logged) : lastCall'.logged[i].type # "LOAD_PROTOCOL"]_vars

\* a locked 4-7-8-style load has just been refused with no pattern bound
C1_Witness ==
  /\ lastCall.op.name = "dispatch"
  /\ lastCall.op.event.type = "LOAD_PROTOCOL"
  /\ LockedAt(state, lastCall.op.event.patternId, lastCall.at)
  /\ now = lastCall.at
  /\ state.pattern = NoPattern
  /\ state.status = "SAFETY_LOCK"
  /\ Last(eventLog).type = "SAFETY_INTERDICTION"
  /\ Last(eventLog).action = "PATTERN_LOCKED"

\* C2: START_SESSION dispatched in status SAFETY_LOCK is logged as the
\* REJECT_START interdiction (risk 1.0), status stays SAFETY_LOCK and neither
\* sessionStartTime nor phaseStartTime is stamped.
C2_RejectStart ==
  [][(Dispatched("START_SESSION") /\ state.status = "SAFETY_LOCK")
       => /\ lastCall'.logged = <<Interdiction(100, "REJECT_START", now)>>
          /\ Last(eventLog') = Interdiction(100, "REJECT_START", now)
          /\ state'.status = "SAFETY_LOCK"
          /\ state'.sessionStartTime = state.sessionStartTime
          /\ state'.phaseStartTime = state.phaseStartTime]_vars

\* a start was refused while a pattern was bound and time had passed since
\* the pattern was bound
C2_Witness ==
  /\ lastCall.op.name = "dispatch"
  /\ lastCall.op.event.type = "START_SESSION"
  /\ Last(lastCall.logged).type = "SAFETY_INTERDICTION"
  /\ Last(lastCall.logged).action = "REJECT_START"
  /\ state.status = "SAFETY_LOCK"
  /\ state.pattern # NoPattern
  /\ state.phaseStartTime < lastCall.at

\* C3: START_SESSION dispatched while the bound pattern's registry entry is
\* locked never turns a status that is not RUNNING into RUNNING.
C3_LockBansStart ==
  [][(/\ Dispatched("START_SESSION")
      /\ state.pattern # NoPattern
      /\ LockedAt(state, state.pattern, now)
      /\ state.status # "RUNNING")
       => state'.status # "RUNNING"]_vars

\* C4: a BELIEF_UPDATE with prediction_error > 0.95 dispatched on a state
\* whose sessionDuration exceeds 10 s is logged as the EMERGENCY_HALT
\* interdiction (risk 0.95), leaves belief unchanged and sets SAFETY_LOCK;
\* every other BELIEF_UPDATE is logged and reduced as it came.
C4_EmergencyHalt ==
  [][Dispatched("BELIEF_UPDATE")
       => IF /\ lastCall'.op.event.belief.prediction_error > 95
             /\ state.sessionDuration > 10 * MsPerSec
            THEN /\ lastCall'.logged = <<Interdiction(95, "EMERGENCY_HALT", now)>>
                 /\ state'.belief = state.belief
                 /\ state'.status = "SAFETY_LOCK"
            ELSE /\ lastCall'.logged = <<lastCall'.op.event>>
                 /\ state'.belief = lastCall'.op.event.belief
                 /\ state'.status = state.status]_vars

\* a critical belief has just been turned into the halt, after a belief at
\* the threshold itself had been accepted
C4_Witness ==
  /\ lastCall.op.name = "dispatch"
  /\ lastCall.op.event.type = "BELIEF_UPDATE"
  /\ lastCall.op.event.belief.prediction_error > 95
  /\ Last(lastCall.logged).type = "SAFETY_INTERDICTION"
  /\ Last(lastCall.logged).action = "EMERGENCY_HALT"
  /\ state.status = "SAFETY_LOCK"
  /\ state.belief = Belief(95)

-----------------------------------------------------------------------------
(* Claims about the circuit breaker *)

AllAdverse(h) == \A i \in 1..Len(h) : h[i] = 0

\* this step registers a completed session of pattern id
Completed(id) == Called("registerSessionComplete") /\ lastCall'.op.patternId = id

\* C5: counted from a fresh profile, each of the first five adverse
\* completions of a pattern leaves the stress score at their number and the
\* lock unset; the sixth resets the score to 0 and sets safety_lock_until to
\* the completion time plus 24 h, in the store and in the kernel's registry.
C5_CircuitBreakerTrip ==
  [][\A id \in CompletedIds :
       (Completed(id) /\ AllAdverse(outcomes'[id]) /\ Len(outcomes'[id]) <= 6)
         => LET n == Len(outcomes'[id])
                stored == userSettings'.safetyRegistry[id]
            IN /\ state'.safetyRegistry[id] = stored
               /\ IF n <= 5
                    THEN /\ stored.cummulative_stress_score = n
                         /\ stored.safety_lock_until = 0
                    ELSE /\ stored.cummulative_stress_score = 0
                         /\ stored.safety_lock_until = now + 24 * 60 * 60 * 1000]_vars

\* the sixth adverse completion in a row has just tripped the breaker, some
\* time after the kernel was constructed
C5_Witness ==
  /\ lastCall.op.name = "registerSessionComplete"
  /\ lastCall.op.patternId = "box"
  /\ Len(outcomes["box"]) = 6
  /\ AllAdverse(outcomes["box"])
  /\ lastCall.at > Epoch
  /\ state.safetyRegistry["box"].cummulative_stress_score = 0
  /\ state.safetyRegistry["box"].safety_lock_until > lastCall.at

MostRecent(h, n) == SubSeq(h, Len(h) - n + 1, Len(h))

\* C6: every profile's resonance_history holds at most 5 entries, and they
\* are the outcomes of the pattern's most recent completions in completion
\* order, in the store and in the kernel's registry.
C6_SlidingWindow ==
  /\ DOMAIN state.safetyRegistry = DOMAIN userSettings.safetyRegistry
  /\ \A id \in DOMAIN userSettings.safetyRegistry :
       LET h == outcomes[id]
           r == userSettings.safetyRegistry[id].resonance_history
       IN /\ Len(r) <= 5
          /\ Len(r) = (IF Len(h) < 5 THEN Len(h) ELSE 5)
          /\ r = MostRecent(h, Len(r))
          /\ state.safetyRegistry[id].resonance_history = r

\* a sixth outcome has evicted a first one that differed from the second
C6_Witness ==
  /\ Len(outcomes["box"]) = 6
  /\ outcomes["box"][1] # outcomes["box"][2]
  /\ "box" \in DOMAIN userSettings.safetyRegistry
  /\ userSettings.safetyRegistry["box"].resonance_history = SubSeq(outcomes["box"], 2, 6)

-----------------------------------------------------------------------------
(* Claims about pause and resume *)

\* this step is an accepted RESUME: RESUME dispatched to a PAUSED kernel
Resumed == Dispatched("RESUME") /\ state.status = "PAUSED"

\* C7: whatever is dispatched while the session is PAUSED, an accepted
\* RESUME shifts phaseStartTime forward by exactly the time since the
\* INTERRUPTION was accepted, so the phase time elapsed right after the
\* resume is the phase time that had elapsed at the moment of the pause.
C7_PausedTimeNeverCounts ==
  [][Resumed =>
       /\ state'.phaseStartTime = state.phaseStartTime + (now - pauseMark.at)
       /\ state'.phaseElapsed = pauseMark.elapsed]_vars

\* C8: when nothing is dispatched between the accepted INTERRUPTION and the
\* RESUME, the state committed by the RESUME is RUNNING and its phaseElapsed
\* is the phase time that had elapsed at the moment of the pause.
C8_PauseAccounting ==
  [][(Resumed /\ pauseMark.quiet) =>
       /\ state'.status = "RUNNING"
       /\ state'.phaseElapsed = pauseMark.elapsed]_vars

\* a session paused 1.5 s into its first phase has just been resumed 5 s
\* later, and shows 1.5 s of phase time
C8_Witness ==
  /\ lastCall.op.name = "dispatch"
  /\ lastCall.op.event.type = "RESUME"
  /\ state.status = "RUNNING"
  /\ lastCall.at = state.sessionStartTime + 6500
  /\ state.phaseStartTime = state.sessionStartTime + 5000
  /\ state.phaseElapsed = 1500

-----------------------------------------------------------------------------
(* Claims about the phase machine *)

IsTransition(e) == e.type = "PHASE_TRANSITION"

Successor == [inhale |-> "holdIn", holdIn |-> "exhale", exhale |-> "holdOut", holdOut |-> "inhale"]

\* the next phase of the cycle that the pattern gives a duration
RECURSIVE Following(_, _)
Following(phase, pattern) ==
  IF BREATHING_PATTERNS[pattern].timings[Successor[phase]] # 0
    THEN Successor[phase]
    ELSE Following(Successor[phase], pattern)

\* C9: a tick of a RUNNING session dispatches no PHASE_TRANSITION while the
\* time since phaseStartTime is below phaseDuration, and exactly one, from
\* the current phase to the next phase, once that time has reached
\* phaseDuration.
C9_PhaseTiming ==
  [][(Called("tick") /\ state.status = "RUNNING" /\ state.pattern # NoPattern) =>
       LET sent == SelectSeq(lastCall'.logged, IsTransition)
       IN IF now - state.phaseStartTime < state.phaseDuration * MsPerSec
            THEN sent = << >>
            ELSE sent = <<[type |-> "PHASE_TRANSITION", from |-> state.phase,
                           to |-> Following(state.phase, state.pattern),
                           timestamp |-> now]>>]_vars

\* the tick that comes exactly 4.0 s into the inhale of a box session has
\* dispatched the session's first transition, inhale -> holdIn
C9_Witness ==
  /\ lastCall.op.name = "tick"
  /\ state.status = "RUNNING"
  /\ state.pattern = "box"
  /\ lastCall.at = state.sessionStartTime + 4000
  /\ SelectSeq(lastCall.logged, IsTransition) =
       <<[type |-> "PHASE_TRANSITION", from |-> "inhale", to |-> "holdIn",
          timestamp |-> lastCall.at]>>
  /\ ptCount = 1
  /\ state.phase = "holdIn"

\* this step is a tick that dispatches a transition into inhale
IntoInhale ==
  /\ Called("tick")
  /\ \E i \in 1..Len(lastCall'.logged) :
       /\ lastCall'.logged[i].type = "PHASE_TRANSITION"
       /\ lastCall'.logged[i].to = "inhale"

\* C10: while a tick-driven session is RUNNING, cycleCount grows by exactly
\* one in every step that dispatches a PHASE_TRANSITION into inhale and is
\* unchanged by every other step; in a box session it is the number of
\* completed rounds of four transitions.
C10_CycleCounting ==
  /\ [][state.status = "RUNNING" =>
          state'.cycleCount = state.cycleCount + (IF IntoInhale THEN 1 ELSE 0)]_vars
  /\ []((state.status = "RUNNING" /\ state.pattern = "box") =>
          /\ state.cycleCount = ptCount \div 4
          /\ state.phase = PhaseOrder[(ptCount % 4) + 1])

\* two full box cycles have been driven: eight transitions, cycleCount 2
C10_Witness ==
  /\ lastCall.op.name = "tick"
  /\ state.status = "RUNNING"
  /\ state.pattern = "box"
  /\ ptCount = 8
  /\ state.phase = "inhale"
  /\ state.cycleCount = 2
  /\ lastCall.at >= state.sessionStartTime + 32000

-----------------------------------------------------------------------------
(* Claims about the kernel's dispatch pipeline *)

\* the last n entries of seq, all of it when it has fewer
Newest(seq, n) == IF Len(seq) <= n THEN seq ELSE SubSeq(seq, Len(seq) - n + 1, Len(seq))

\* C11: the log never holds more than MAX_LOG_SIZE entries, and after every
\* call it is, in dispatch order, the most recent MAX_LOG_SIZE of the events
\* that passed the guard: the log before the call followed by the events the
\* call appended, cut from the old end.
C11_BoundedLog ==
  /\ [](Len(eventLog) <= MAX_LOG_SIZE)
  /\ [][now' = now =>
          eventLog' = Newest(eventLog \o lastCall'.logged, MAX_LOG_SIZE)]_vars

\* the log is full of events later than the constructor's BOOT, which was
\* the oldest entry and has been evicted
C11_Witness ==
  /\ Len(eventLog) = MAX_LOG_SIZE
  /\ \A i \in 1..Len(eventLog) : eventLog[i].timestamp > Epoch
  /\ eventLog[1].timestamp < Last(eventLog).timestamp
  /\ lastCall.logged = <<Last(eventLog)>>

\* the state after the events evs are reduced and derived, in order, from s
RECURSIVE Replay(_, _, _)
Replay(s, evs, t) ==
  IF evs = << >> THEN s
  ELSE Replay(computeDerivedFields(reduce(s, Head(evs)), t), Tail(evs), t)

\* this step is a call that dispatches: dispatch, tick, loadSafetyRegistry
\* or the driver's start effect
Dispatching == now' = now /\ lastCall'.op.name \notin {"use", "subscribe"}

\* the probes' records of this step's call that belong to a dispatched event
Shown == {j \in 1..Len(lastCall'.seen) : lastCall'.seen[j].nth > 0}

C13_ReentrantDispatchQueued ==
  [][Dispatching =>
       \A j \in Shown :
         LET r == lastCall'.seen[j]
         IN /\ r.upto = r.nth
            /\ r.given = Replay(state, SubSeq(lastCall'.logged, 1, r.nth), now)]_vars

\* some middleware of this step's call threw
MiddlewareThrew ==
  \E j \in Shown :
     /\ lastCall'.seen[j].role = "middleware"
     /\ middlewares[lastCall'.seen[j].index] = ThrowsOnTransition
     /\ lastCall'.logged[lastCall'.seen[j].nth].type = "PHASE_TRANSITION"

\* the probes of the given role were each invoked exactly once for every
\* event of this step's call
AllInvoked(role, n) ==
  \A nth \in 1..Len(lastCall'.logged), i \in 1..n :
     Cardinality({j \in Shown : /\ lastCall'.seen[j].role = role
                                /\ lastCall'.seen[j].index = i
                                /\ lastCall'.seen[j].nth = nth}) = 1

Subscribed(cb) == \E i \in 1..Len(subscribers) : subscribers[i] = cb

\* C14: when a subscriber throws during a notification and no middleware
\* does, the call returns normally, every subscriber is invoked exactly once
\* for each event of the call, and the committed state and log are those the
\* events alone produce.
C14_SubscriberIsolation ==
  [][(Dispatching /\ Subscribed(Throws) /\ ~MiddlewareThrew) =>
       /\ ~lastCall'.thrown
       /\ AllInvoked("subscriber", Len(subscribers))
       /\ state' = Replay(state, lastCall'.logged, now)
       /\ eventLog' = Newest(eventLog \o lastCall'.logged, MAX_LOG_SIZE)]_vars

\* a tick has notified a throwing subscriber first and a second subscriber
\* after it, for each of its events, and has returned normally
C14_Witness ==
  /\ lastCall.op.name = "tick"
  /\ ~lastCall.thrown
  /\ Len(subscribers) = 2
  /\ subscribers[1] = Throws
  /\ Len(lastCall.logged) >= 3
  /\ \A nth \in 1..Len(lastCall.logged) :
       \E a, b \in 1..Len(lastCall.seen) :
          /\ a < b
          /\ lastCall.seen[a].nth = nth /\ lastCall.seen[a].role = "subscriber"
          /\ lastCall.seen[a].index = 1
          /\ lastCall.seen[b].nth = nth /\ lastCall.seen[b].role = "subscriber"
          /\ lastCall.seen[b].index = 2

\* C15: when a middleware throws, the call returns normally, every probe
\* middleware and every subscriber is still invoked for each event of the
\* call, and a tick still dispatches its CYCLE_COMPLETE after a transition
\* into inhale and ends with its TICK.
C15_MiddlewareIsolation ==
  [][(Dispatching /\ MiddlewareThrew) =>
       /\ ~lastCall'.thrown
       /\ AllInvoked("subscriber", Len(subscribers))
       /\ lastCall'.op.name = "tick" =>
            /\ Last(lastCall'.logged).type = "TICK"
            /\ \A i \in 1..Len(lastCall'.logged) :
                 (lastCall'.logged[i].type = "PHASE_TRANSITION" /\ lastCall'.logged[i].to = "inhale")
                   => /\ i < Len(lastCall'.logged)
                      /\ lastCall'.logged[i + 1].type = "CYCLE_COMPLETE"]_vars

-----------------------------------------------------------------------------
(* Claims about the estimator *)

InUnit(v) == 0 <= v /\ v <= 100

\* C16: after every estimator update from valid inputs (dt >= 0, a finite
\* heart rate, hr_confidence within [0,1]) arousal, attention,
\* rhythm_alignment and confidence lie in [0,1], prediction_error is not
\* negative and no variance is negative, so that each Kalman-gain
\* denominator (variance + measurement noise) is strictly positive.
C16_BeliefBounds ==
  LET b == estimator.belief
  IN /\ InUnit(b.arousal) /\ InUnit(b.attention) /\ InUnit(b.rhythm_alignment)
     /\ InUnit(b.confidence)
     /\ b.prediction_error >= 0
     /\ b.arousal_variance >= 0 /\ b.attention_variance >= 0 /\ b.rhythm_variance >= 0
     /\ b.arousal_variance + MEASUREMENT_NOISE_HR > 0
     /\ b.attention_variance + MEASUREMENT_NOISE_CONTEXT > 0

\* an update heard a heart rate below the normalised range while the page
\* was hidden: the Kalman correction pulled arousal below every target and
\* shrank its variance, and the broken rhythm was held at the clamp
C16_Witness ==
  /\ lastCall.op.name = "tick"
  /\ lastCall.op.observation.heart_rate = 40
  /\ lastCall.op.observation.visibilty_state = "hidden"
  /\ estimator.belief.arousal < 20
  /\ estimator.belief.rhythm_alignment = 0
  /\ estimator.belief.arousal_variance < newEstimator.belief.arousal_variance

-----------------------------------------------------------------------------
(* Claims about the derived fields and the registry *)

\* C17: in the state every dispatch commits, phaseElapsed and sessionDuration
\* are both 0 unless status is RUNNING, and when RUNNING they are the
\* non-negative wall-clock time since phaseStartTime and sessionStartTime.
C17_DerivedFields ==
  [][now' = now =>
       IF state'.status = "RUNNING"
         THEN /\ state'.phaseElapsed = Max(0, now - state'.phaseStartTime)
              /\ state'.sessionDuration = Max(0, now - state'.sessionStartTime)
         ELSE /\ state'.phaseElapsed = 0
              /\ state'.sessionDuration = 0]_vars

Frame(s) == <<s.status, s.pattern, s.phase, s.cycleCount, s.belief>>

\* C18: after loadSafetyRegistry(m) the state's safetyRegistry has exactly
\* the keys and profiles of m, entries of the previous registry that m does
\* not name being gone, and status, pattern, phase, cycleCount and belief
\* are unchanged.
C18_RegistryReplacement ==
  [][Called("loadSafetyRegistry") =>
       LET m == lastCall'.op.registry
       IN /\ DOMAIN state'.safetyRegistry = DOMAIN m
          /\ \A id \in DOMAIN m : state'.safetyRegistry[id] = m[id]
          /\ Frame(state') = Frame(state)]_vars

\* a registry naming two patterns was loaded over, with a session running,
\* by the empty registry, which is what the state now holds
C18_Witness ==
  /\ lastCall.op.name = "loadSafetyRegistry"
  /\ lastCall.op.registry = << >>
  /\ Len(eventLog) = 2
  /\ eventLog[1].type = "LOAD_SAFETY_REGISTRY"
  /\ DOMAIN eventLog[1].registry = {"box", "4-7-8"}
  /\ eventLog[2].type = "LOAD_SAFETY_REGISTRY"
  /\ DOMAIN state.safetyRegistry = {}
  /\ state.status = "RUNNING"

-----------------------------------------------------------------------------
(* Claims about tier gating *)

\* resonance entries of the registry, as <<pattern id, index>>
Entries(registry) ==
  UNION {{<<id, i>> : i \in DOMAIN registry[id].resonance_history} : id \in DOMAIN registry}

PerfectEntries(registry) ==
  Cardinality({e \in Entries(registry) : registry[e[1]].resonance_history[e[2]] = 1})

QualityCount(h) == Cardinality({i \in DOMAIN h : h[i].durationSec > 60})

\* (a) the pattern's own registry entry holds a lock that has not run out
OwnLock(id, registry, t) == id \in DOMAIN registry /\ registry[id].safety_lock_until > t

\* a non-empty resonance history of 0s and 1s averaging below 0.4
AverageBelow04(resonance) ==
  /\ resonance # << >>
  /\ 10 * Cardinality({i \in DOMAIN resonance : resonance[i] = 1}) < 4 * Len(resonance)

\* the tier gating policy as stated
GatePolicy(id, registry, h, t) ==
  LET tier == BREATHING_PATTERNS[id].tier
  IN \/ OwnLock(id, registry, t)
     \/ /\ tier = 2
        /\ \/ QualityCount(h) < 5
           \/ id \in DOMAIN registry /\ AverageBelow04(registry[id].resonance_history)
     \/ /\ tier = 3
        /\ \/ QualityCount(h) < 20
           \/ PerfectEntries(registry) < 5

Locked(id) == isPatternLocked(BREATHING_PATTERNS[id], userSettings.safetyRegistry, history, now)

Starts(id) ==
  /\ now' = now
  /\ lastCall'.op.name \in {"handleSelectPattern", "handleStart"}
  /\ lastCall'.op.patternId = id

\* C20: on no start path, a pattern card or the hero button, is a session
\* started (startSession, hence LOAD_PROTOCOL and START_SESSION) for a
\* pattern that isPatternLocked reports as locked at that moment.
C20_GateBeforeStart ==
  [][\A id \in DOMAIN BREATHING_PATTERNS : Starts(id) => ~Locked(id)]_vars

-----------------------------------------------------------------------------
(* SpecOutcome: the outcome of a completion.  The store is rehydrated at   *)
(* start with nothing, with a box profile of five successes or with one of *)
(* five adverse sessions; sessions of box then complete after 45 s and     *)
(* after 46 s with final prediction errors on either side of 0.5.          *)

\* completions registered in one run of SpecOutcome
MaxOutcomes == 3

OutcomeDurations == {45, 46}

OutcomeRegistries ==
  { << >>,
    Registry({Profile("box", <<1, 1, 1, 1, 1>>, 0)}),
    Registry({Profile("box", <<0, 0, 0, 0, 0>>, 0)}) }

\* onRehydrateStorage with one of the registries above
RehydrateOutcome ==
  /\ lastCall.op.name = "constructor"
  /\ \E r \in OutcomeRegistries :
       /\ Call(loadSafetyRegistry(Kernel, r, now), [name |-> "rehydrate", registry |-> r])
       /\ userSettings' = [userSettings EXCEPT !.safetyRegistry = r]
  /\ UNCHANGED <<history, selectedPatternId, outcomes, estimator, eventStore, vitals>>

RegisterOutcome == RegisterSessionCompleteOf(OutcomeDurations, MaxOutcomes)

NextOutcome == PassReducer \/ RehydrateOutcome \/ SetBelief \/ RegisterOutcome

SpecOutcome == Init /\ [][NextOutcome]_vars

-----------------------------------------------------------------------------
(* SpecLock: the kernel under a safety lock.  The stored registry that     *)
(* locks 4-7-8 may be loaded when the app starts; then 4-7-8 and box are   *)
(* loaded and every control event, BOOT, a registry without locks and     *)
(* ticks are dispatched in every status; the clock moves once, by 5.5 s,   *)
(* to the end of the lock.                                                 *)

LockIds == {"4-7-8", "box"}

LockEvents(t) ==
  {Ev(type, t) : type \in {"BOOT", "START_SESSION", "HALT", "INTERRUPTION", "RESUME"}}
  \cup {LoadProtocol(id, t) : id \in LockIds}
  \cup {[type |-> "LOAD_SAFETY_REGISTRY", registry |-> << >>, timestamp |-> t]}

DispatchLock == DispatchOf(LockEvents(now))

NextLock == PassReducer \/ Rehydrate \/ DispatchLock \/ SteadyTick

SpecLock == Init /\ [][NextLock]_vars

-----------------------------------------------------------------------------
(* SpecTick: the driver's control bus and frame loop.  The stored registry *)
(* that locks 4-7-8 may be loaded when the app starts; sessions of awake   *)
(* and of 4-7-8 are started, paused, resumed and stopped, and a tick may   *)
(* come in every status while the clock moves in steps of 4 s.             *)

\* effect 1, isActive turned false: HALT
StopEffect == DispatchOf({[type |-> "HALT", reason |-> "cleanup", timestamp |-> now]})

NextTick ==
  PassWatched \/ Rehydrate \/ StartWatched \/ PauseEffect \/ StopEffect \/ SteadyTick

SpecTick == Init /\ [][NextTick]_vars

-----------------------------------------------------------------------------
(* The reducer's contract, observed through dispatch *)

\* the fields of a state that reduce writes; phaseElapsed and sessionDuration
\* are derived anew by every dispatch
Persistent(s) == [f \in DOMAIN s \ {"phaseElapsed", "sessionDuration"} |-> s[f]]

KernelEventKinds ==
  {"BOOT", "LOAD_PROTOCOL", "START_SESSION", "INTERRUPTION", "RESUME", "HALT",
   "SAFETY_INTERDICTION", "PHASE_TRANSITION", "CYCLE_COMPLETE", "BELIEF_UPDATE", "TICK",
   "LOAD_SAFETY_REGISTRY"}

\* the event e is one the reducer is to ignore in state s
NoOpEvent(s, e) ==
  \/ e.type \notin KernelEventKinds
  \/ e.type = "LOAD_PROTOCOL" /\ e.patternId \notin DOMAIN BREATHING_PATTERNS
  \/ e.type = "LOAD_PROTOCOL" /\ s.status = "SAFETY_LOCK"
  \/ e.type = "START_SESSION" /\ s.pattern = NoPattern
  \/ e.type = "INTERRUPTION" /\ s.status # "RUNNING"
  \/ e.type = "RESUME" /\ s.status # "PAUSED"
  \/ e.type = "PHASE_TRANSITION" /\ s.pattern = NoPattern

\* C22: the reducer is total and ignores a no-op event: a dispatch whose
\* guarded event is of an unknown kind, a LOAD_PROTOCOL of an unknown pattern
\* id or in SAFETY_LOCK, a START_SESSION or PHASE_TRANSITION with no pattern
\* bound, an INTERRUPTION outside RUNNING or a RESUME outside PAUSED raises no
\* exception and leaves every field reduce writes, lastUpdateTimestamp
\* included, as it was.
C22_NoOpEvents ==
  [][Called("dispatch") /\ NoOpEvent(state, Head(lastCall'.logged)) =>
       /\ ~lastCall'.thrown
       /\ Persistent(state') = Persistent(state)]_vars

\* what a repeated HALT is to leave alone
Settled(s) == <<s.status, s.pattern, s.phase, s.cycleCount, s.belief, s.safetyRegistry>>

\* the call before this step was dispatch(HALT)
AfterHalt == lastCall.op.name = "dispatch" /\ lastCall.op.event.type = "HALT"

\* C23: dispatch(HALT) yields status HALTED from every status, and a HALT
\* that follows a HALT leaves status, pattern, phase, cycleCount, belief and
\* safetyRegistry as the first left them.
C23_HaltIdempotent ==
  [][Dispatched("HALT") =>
       /\ state'.status = "HALTED"
       /\ AfterHalt => Settled(state') = Settled(state)]_vars

\* HALT was dispatched twice in a row on a bound pattern whose belief
\* had been updated
C23_Witness ==
  /\ AfterHalt
  /\ Len(eventLog) = 2
  /\ eventLog[1].type = "HALT" /\ eventLog[2].type = "HALT"
  /\ state.status = "HALTED"
  /\ state.pattern = "4-7-8"
  /\ state.belief.prediction_error = 95

\* what a fold that met a throwing reduce comes to
Raised == [name |-> "TypeError"]

\* events.reduce(reduce, s), an exception of reduce ending the fold
RECURSIVE Fold(_, _)
Fold(s, evs) ==
  IF evs = << >> \/ s = Raised THEN s
  ELSE IF throwsTypeError(s, Head(evs)) THEN Raised
  ELSE Fold(reduce(s, Head(evs)), Tail(evs))

\* the fields that are not derived
Stored(s) ==
  <<s.status, s.pattern, s.phase, s.phaseStartTime, s.phaseDuration, s.cycleCount,
    s.sessionStartTime, s.belief, s.safetyRegistry, s.lastObservation,
    s.lastUpdateTimestamp>>

\* nothing has left the log: it still begins with the constructor's BOOT,
\* the one BOOT there is
WholeLog == Len(eventLog) >= 1 /\ eventLog[1].type = "BOOT"

\* C24: while no more than MAX_LOG_SIZE events have been logged, folding
\* reduce over the log from the initial state raises nothing and gives the
\* kernel's state on every field that is not derived.
C24_Replayability ==
  WholeLog =>
    LET replayed == Fold(createInitialState(Epoch), eventLog)
    IN /\ replayed # Raised
       /\ Stored(replayed) = Stored(state)

-----------------------------------------------------------------------------
(* Claims about the sequencer and the composition of tick *)

Timing(pattern, phase) == BREATHING_PATTERNS[pattern].timings[phase]

\* `to` is the first phase after `from`, in the cyclic order, that pattern
\* gives a duration other than 0
FirstTimed(from, to, pattern) ==
  \E n \in 1..4 :
     /\ to = PhaseAfter(from, n)
     /\ Timing(pattern, to) # 0
     /\ \A m \in 1..(n - 1) : Timing(pattern, PhaseAfter(from, m)) = 0

\* C25: for every built-in pattern the sequencer answers with the first
\* phase after the current one, in the order inhale, holdIn, exhale, holdOut
\* and around, whose duration is not 0; and every PHASE_TRANSITION a tick
\* dispatches leads to that phase, which the state then holds with its
\* configured, non-zero phaseDuration.
C25_Sequencer ==
  /\ [](\A id \in DOMAIN BREATHING_PATTERNS : \A p \in DOMAIN BREATHING_PATTERNS[id].timings :
          FirstTimed(p, nextPhaseSkipZero(p, id), id))
  /\ [][Called("tick") =>
          \A i \in 1..Len(lastCall'.logged) :
             LET e == lastCall'.logged[i]
             IN e.type = "PHASE_TRANSITION" =>
                  /\ e.from = state.phase
                  /\ FirstTimed(e.from, e.to, state.pattern)
                  /\ state'.phase = e.to
                  /\ state'.phaseDuration = Timing(state.pattern, e.to)
                  /\ state'.phaseDuration # 0]_vars

\* a tick of a 4-7-8 session has left exhale for inhale, passing over the
\* holdOut of duration 0, and has completed the first cycle
C25_Witness ==
  /\ lastCall.op.name = "tick"
  /\ state.pattern = "4-7-8"
  /\ \E i \in 1..Len(lastCall.logged) :
       /\ lastCall.logged[i].type = "PHASE_TRANSITION"
       /\ lastCall.logged[i].from = "exhale"
       /\ lastCall.logged[i].to = "inhale"
  /\ state.phase = "inhale"
  /\ state.phaseDuration = 4
  /\ state.cycleCount = 1

\* C27: a tick dispatches, all with the time of the tick, BELIEF_UPDATE
\* first and TICK last; between them, when the status is RUNNING and the
\* time since phaseStartTime has reached phaseDuration, one PHASE_TRANSITION,
\* followed by CYCLE_COMPLETE exactly when it leads to inhale, and nothing
\* otherwise; in IDLE, PAUSED, HALTED and SAFETY_LOCK a tick leaves phase and
\* cycleCount as they were.
C27_TickComposition ==
  [][Called("tick") =>
       LET evs == lastCall'.logged
           n == Len(evs)
           due == /\ state.status = "RUNNING"
                  /\ now - state.phaseStartTime >= state.phaseDuration * MsPerSec
       IN /\ \A i \in 1..n : evs[i].timestamp = now
          /\ n >= 2 /\ evs[1].type = "BELIEF_UPDATE" /\ evs[n].type = "TICK"
          /\ IF due
               THEN /\ n \in {3, 4}
                    /\ evs[2].type = "PHASE_TRANSITION"
                    /\ n = 4 <=> evs[2].to = "inhale"
                    /\ n = 4 => evs[3].type = "CYCLE_COMPLETE"
               ELSE n = 2
          /\ state.status # "RUNNING" =>
               /\ state'.phase = state.phase
               /\ state'.cycleCount = state.cycleCount]_vars

\* a tick of a running awake session, 2 s into its exhale, has dispatched
\* its four events: the cycle is complete
C27_Witness ==
  /\ lastCall.op.name = "tick"
  /\ state.status = "RUNNING"
  /\ state.pattern = "awake"
  /\ Len(lastCall.logged) = 4
  /\ lastCall.logged[1].type = "BELIEF_UPDATE"
  /\ lastCall.logged[2].type = "PHASE_TRANSITION"
  /\ lastCall.logged[2].to = "inhale"
  /\ lastCall.logged[3].type = "CYCLE_COMPLETE"
  /\ lastCall.logged[4].type = "TICK"
  /\ state.cycleCount = 1

-----------------------------------------------------------------------------
(* Claims about the effect of single events *)

\* C29: a LOAD_PROTOCOL that is accepted (status not SAFETY_LOCK, a pattern
\* of the table, no lock on it) binds the pattern, sets phase inhale with the
\* pattern's inhale timing as phaseDuration, sets cycleCount and
\* sessionStartTime to 0 and belief.rhythm_alignment, prediction_error and
\* confidence to 0, keeps arousal, attention and the three variances, and
\* leaves status and safetyRegistry as they were.
C29_LoadProtocolEffect ==
  [][Dispatched("LOAD_PROTOCOL") =>
       LET id == lastCall'.op.event.patternId
           accepted == /\ state.status # "SAFETY_LOCK"
                       /\ id \in DOMAIN BREATHING_PATTERNS
                       /\ ~LockedAt(state, id, now)
       IN accepted =>
            /\ state'.pattern = id
            /\ state'.phase = "inhale"
            /\ state'.phaseDuration = BREATHING_PATTERNS[id].timings.inhale
            /\ state'.cycleCount = 0
            /\ state'.sessionStartTime = 0
            /\ state'.belief.rhythm_alignment = 0
            /\ state'.belief.prediction_error = 0
            /\ state'.belief.confidence = 0
            /\ \A f \in {"arousal", "attention", "arousal_variance", "attention_variance",
                          "rhythm_variance"} : state'.belief[f] = state.belief[f]
            /\ state'.status = state.status
            /\ state'.safetyRegistry = state.safetyRegistry]_vars

\* 4-7-8 was loaded over a running session right after a belief update:
\* the belief keeps its arousal and attention and has lost the rest
C29_Witness ==
  /\ lastCall.op.name = "dispatch"
  /\ lastCall.op.event.type = "LOAD_PROTOCOL"
  /\ Len(eventLog) = 2
  /\ eventLog[1].type = "BELIEF_UPDATE"
  /\ eventLog[2].type = "LOAD_PROTOCOL"
  /\ state.status = "RUNNING"
  /\ state.pattern = "4-7-8"
  /\ state.sessionStartTime = 0
  /\ state.belief = [Belief(95) EXCEPT !.rhythm_alignment = 0, !.prediction_error = 0,
                                       !.confidence = 0]

\* what START_SESSION is to leave alone
Carried(s) == <<s.pattern, s.phase, s.phaseDuration, s.cycleCount, s.belief, s.safetyRegistry>>

\* C30: a START_SESSION that reaches the reducer (the status is not
\* SAFETY_LOCK) with a pattern bound sets status RUNNING whatever the status
\* was, sets sessionStartTime and phaseStartTime to the event's timestamp and
\* leaves pattern, phase, phaseDuration, cycleCount, belief and
\* safetyRegistry as they were; with no pattern bound it changes no field.
C30_StartSessionEffect ==
  [][Dispatched("START_SESSION") /\ state.status # "SAFETY_LOCK" =>
       LET at == lastCall'.op.event.timestamp
       IN IF state.pattern # NoPattern
            THEN /\ state'.status = "RUNNING"
                 /\ state'.sessionStartTime = at
                 /\ state'.phaseStartTime = at
                 /\ Carried(state') = Carried(state)
            ELSE /\ ~lastCall'.thrown
                 /\ Persistent(state') = Persistent(state)]_vars

\* a halted 4-7-8 session was started again, later than the kernel was built
C30_Witness ==
  /\ lastCall.op.name = "dispatch"
  /\ lastCall.op.event.type = "START_SESSION"
  /\ Len(eventLog) = 2
  /\ eventLog[1].type = "HALT"
  /\ eventLog[2].type = "START_SESSION"
  /\ state.status = "RUNNING"
  /\ state.pattern = "4-7-8"
  /\ lastCall.at > Epoch
  /\ state.sessionStartTime = lastCall.at
  /\ state.phaseStartTime = lastCall.at

-----------------------------------------------------------------------------
(* Claims about the status machine *)

\* C31: status becomes PAUSED only in the dispatch of an INTERRUPTION to a
\* RUNNING kernel; a RESUME gives RUNNING from PAUSED and changes no field in
\* any other status, so it never leads from IDLE, HALTED or SAFETY_LOCK to
\* RUNNING; an INTERRUPTION in a status other than RUNNING changes no field.
C31_PauseResumeValidity ==
  [][now' = now =>
       /\ (state'.status = "PAUSED" /\ state.status # "PAUSED") =>
            Dispatched("INTERRUPTION") /\ state.status = "RUNNING"
       /\ Dispatched("INTERRUPTION") =>
            IF state.status = "RUNNING" THEN state'.status = "PAUSED"
            ELSE Persistent(state') = Persistent(state)
       /\ Dispatched("RESUME") =>
            IF state.status = "PAUSED" THEN state'.status = "RUNNING"
            ELSE Persistent(state') = Persistent(state)]_vars

\* a RESUME was dispatched to a halted kernel that has a pattern bound, and
\* the kernel is still halted
C31_Witness ==
  /\ lastCall.op.name = "dispatch"
  /\ lastCall.op.event.type = "RESUME"
  /\ Len(eventLog) = 2
  /\ eventLog[1].type = "HALT"
  /\ eventLog[2].type = "RESUME"
  /\ state.status = "HALTED"
  /\ state.pattern = "4-7-8"

-----------------------------------------------------------------------------
(* Claims about the completion of a session *)

\* the profile a registry holds for id; a pattern it does not name has the
\* profile its first completion starts from
ProfileOf(registry, id) ==
  IF id \in DOMAIN registry THEN registry[id]
  ELSE [patternId |-> id, cummulative_stress_score |-> 0, last_incident_timestamp |-> 0,
        safety_lock_until |-> 0, resonance_history |-> << >>]

\* the last five entries of h followed by v, at most
Pushed(h, v) ==
  LET grown == Append(h, v)
  IN IF Len(grown) > 5 THEN SubSeq(grown, Len(grown) - 4, Len(grown)) ELSE grown

\* the outcome rule of a registerSessionComplete step, the score an adverse
\* completion leaves being after(score)
OutcomeRule(after(_)) ==
  Called("registerSessionComplete") =>
    LET id == lastCall'.op.patternId
        success == lastCall'.op.durationSec > 45 /\ state.belief.prediction_error < 50
        old == ProfileOf(userSettings.safetyRegistry, id)
        new == userSettings'.safetyRegistry[id]
    IN /\ new.resonance_history = Pushed(old.resonance_history, IF success THEN 1 ELSE 0)
       /\ IF success
            THEN /\ new.cummulative_stress_score = old.cummulative_stress_score
                 /\ new.safety_lock_until = old.safety_lock_until
            ELSE new.cummulative_stress_score = after(old.cummulative_stress_score)
       /\ lastCall'.logged =
            <<[type |-> "LOAD_SAFETY_REGISTRY", registry |-> userSettings'.safetyRegistry,
               timestamp |-> now]>>
       /\ state'.safetyRegistry = userSettings'.safetyRegistry

PlusOne(score) == score + 1

\* one more, and back to 0 once that is more than 5
PlusOneOrTrip(score) == IF score + 1 > 5 THEN 0 ELSE score + 1

\* C32 as claimed: a completion is a success iff durationSec > 45 and the
\* kernel's final prediction_error < 0.5; a success appends 1.0 to the
\* pattern's resonance_history and leaves score and lock alone, any other
\* completion appends 0.0 and leaves the score one higher than it was; the
\* whole updated registry is then loaded into the kernel.
C32_SessionOutcomeRule == [][OutcomeRule(PlusOne)]_vars

\* C32 amended: as above, but an adverse completion leaves the score one
\* higher only while that is at most 5; the completion that would make it 6
\* leaves it at 0.
C32_SessionOutcomeRuleTrip == [][OutcomeRule(PlusOneOrTrip)]_vars

\* a session of exactly 45 s with a final prediction error below 0.5 was
\* registered as adverse on top of five successes
C32_Witness ==
  /\ lastCall.op.name = "registerSessionComplete"
  /\ lastCall.op.durationSec = 45
  /\ state.belief.prediction_error = 49
  /\ userSettings.safetyRegistry["box"].resonance_history = <<1, 1, 1, 1, 0>>
  /\ userSettings.safetyRegistry["box"].cummulative_stress_score = 1
  /\ state.safetyRegistry = userSettings.safetyRegistry

\* C33: the kernel state's safetyRegistry changes only in a call that
\* dispatches LOAD_SAFETY_REGISTRY, and a completion mutates no profile the
\* kernel state holds: the profile of the completed pattern in a state
\* obtained before the completion is, after it, what it was.
C33_RegistryImmutability ==
  [][/\ state'.safetyRegistry # state.safetyRegistry =>
          \E i \in 1..Len(lastCall'.logged) : lastCall'.logged[i].type = "LOAD_SAFETY_REGISTRY"
     /\ (Called("registerSessionComplete") /\ lastCall'.op.patternId \in DOMAIN state.safetyRegistry)
          => lastCall'.op.held = state.safetyRegistry[lastCall'.op.patternId]]_vars

\* C34: a kernel whose status is RUNNING or PAUSED has a pattern bound.
C34_ActiveHasPattern ==
  state.status \in {"RUNNING", "PAUSED"} => state.pattern # NoPattern

\* a session was started and then paused, some time after a kernel with no
\* pattern bound was built
C34_Witness ==
  /\ lastCall.op.name = "dispatch"
  /\ lastCall.op.event.type = "INTERRUPTION"
  /\ lastCall.at > Epoch
  /\ Len(eventLog) = 2
  /\ eventLog[1].type = "START_SESSION"
  /\ eventLog[1].timestamp = lastCall.at
  /\ state.status = "PAUSED"
  /\ state.pattern = "4-7-8"

\* C35: in status SAFETY_LOCK a dispatch of HALT gives HALTED and one of
\* BOOT gives IDLE; every other call (START_SESSION, LOAD_PROTOCOL,
\* INTERRUPTION, RESUME, loadSafetyRegistry, tick) leaves the status
\* SAFETY_LOCK and the bound pattern as it was.
C35_LockAbsorbing ==
  [][(now' = now /\ state.status = "SAFETY_LOCK") =>
       IF Dispatched("HALT") THEN state'.status = "HALTED"
       ELSE IF Dispatched("BOOT") THEN state'.status = "IDLE"
       ELSE state'.status = "SAFETY_LOCK" /\ state'.pattern = state.pattern]_vars

\* 4-7-8, its lock over by now, was loaded into a kernel that had been
\* locked with box bound, and the kernel is as it was
C35_Witness ==
  /\ lastCall.op.name = "dispatch"
  /\ lastCall.op.event.type = "LOAD_PROTOCOL"
  /\ lastCall.op.event.patternId = "4-7-8"
  /\ lastCall.logged = <<lastCall.op.event>>
  /\ lastCall.at = Epoch + LockSpan
  /\ state.status = "SAFETY_LOCK"
  /\ state.pattern = "box"

-----------------------------------------------------------------------------
(* SpecError: sessions of one pattern per target of the estimator, driven  *)
(* by ticks carrying any estimate of the grid.  The clock moves in steps   *)
(* of 5.5 s, so that a session is followed past its tenth second.          *)

ErrorSteps == {LockSpan}

ErrorIds == {"box", "4-7-8", "awake"}

StartError == StartEffectOf(ErrorIds)

PassError == state.status = "RUNNING" /\ Advance(ErrorSteps, MaxError)

NextError == PassError \/ StartError \/ Tick

SpecError == Init /\ [][NextError]_vars

-----------------------------------------------------------------------------
(* Claims about the estimator inside the kernel *)

\* C36: for each of the four targets the prediction error of every estimate
\* within [0,1] is at most 0.95, and every tick logs its BELIEF_UPDATE with
\* a prediction_error of at most 0.95 and no SAFETY_INTERDICTION: rule 2 of
\* the guard never replaces the belief update of a tick.
C36_TickErrorBelowThreshold ==
  /\ [](\A name \in DOMAIN PROTOCOL_TARGETS :
          \A b \in update(PROTOCOL_TARGETS[name]) : b.prediction_error <= 95)
  /\ [][Called("tick") =>
          LET evs == lastCall'.logged
          IN /\ Len(evs) >= 1
             /\ evs[1].type = "BELIEF_UPDATE"
             /\ evs[1].belief.prediction_error <= 95
             /\ \A i \in 1..Len(evs) : evs[i].type # "SAFETY_INTERDICTION"]_vars

\* more than 10 s into a 4-7-8 session a tick has dispatched the estimate
\* farthest from the pattern's target, and the session is still running
C36_Witness ==
  /\ lastCall.op.name = "tick"
  /\ state.status = "RUNNING"
  /\ state.pattern = "4-7-8"
  /\ state.sessionDuration > 10 * MsPerSec
  /\ lastCall.logged[1].type = "BELIEF_UPDATE"
  /\ lastCall.logged[1].belief.arousal = 100
  /\ lastCall.logged[1].belief.attention = 0
  /\ lastCall.logged[1].belief.rhythm_alignment = 0
  /\ state.belief.prediction_error > 70

-----------------------------------------------------------------------------
(* Claims about the range of the stress score *)

ScoresInRange(registry) ==
  \A id \in DOMAIN registry : registry[id].cummulative_stress_score \in 0..5

\* C37: a registerSessionComplete that finds the stored score of every
\* profile in 0..5 leaves every stored score in 0..5, and the
\* safety_lock_until of a profile differs after a completion only if the
\* completion was of that pattern, was not a success and raised the score
\* above 5.
C37_StressScoreRange ==
  [][Called("registerSessionComplete") /\ ScoresInRange(userSettings.safetyRegistry) =>
       LET id == lastCall'.op.patternId
           success == lastCall'.op.durationSec > 45 /\ state.belief.prediction_error < 50
           old == userSettings.safetyRegistry
           new == userSettings'.safetyRegistry
       IN /\ ScoresInRange(new)
          /\ \A p \in DOMAIN new :
               ProfileOf(new, p).safety_lock_until # ProfileOf(old, p).safety_lock_until =>
                 /\ p = id
                 /\ ~success
                 /\ ProfileOf(old, p).cummulative_stress_score + 1 > 5]_vars

\* an adverse completion of box on a score of 5 has locked the pattern for
\* 24 hours and left the score at 0
C37_Witness ==
  /\ lastCall.op.name = "registerSessionComplete"
  /\ lastCall.op.patternId = "box"
  /\ lastCall.op.held.cummulative_stress_score = 0
  /\ userSettings.safetyRegistry["box"].cummulative_stress_score = 0
  /\ userSettings.safetyRegistry["box"].safety_lock_until = now + LockMs
  /\ userSettings.safetyRegistry["box"].resonance_history = <<0, 0, 0, 0, 0>>

-----------------------------------------------------------------------------
(* SpecSubscription: callbacks are subscribed and unsubscribed at any      *)
(* time while sessions of awake and of 4-7-8 are started and ticked; a     *)
(* middleware probe may be registered before the first event.              *)

SubscriptionProbes == {Quiet, Throws}

\* kernel.subscribe(cb), at any time
SubscribeLate ==
  /\ Len(subscribers) < MaxSubscribers
  /\ \E cb \in SubscriptionProbes :
       Call(subscribe(Kernel, cb, now), [name |-> "subscribe", callback |-> cb])
  /\ UNCHANGED <<userSettings, history, selectedPatternId, outcomes, estimator, eventStore, vitals>>

\* the function an earlier subscribe(cb) returned is called
Unsubscribe ==
  /\ \E cb \in SubscriptionProbes :
       /\ \E i \in 1..Len(subscribers) : subscribers[i] = cb
       /\ Call(unsubscribe(Kernel, cb), [name |-> "unsubscribe", callback |-> cb])
  /\ UNCHANGED <<userSettings, history, selectedPatternId, outcomes, estimator, eventStore, vitals>>

NextSubscription ==
  PassWatched \/ Use \/ SubscribeLate \/ Unsubscribe \/ StartWatched \/ SteadyTick

SpecSubscription == Init /\ [][NextSubscription]_vars

-----------------------------------------------------------------------------
(* Claims about the subscription lifecycle *)

\* seq without cb
Without(seq, cb) == SelectSeq(seq, LAMBDA c : c # cb)

\* C38: subscribe(cb) invokes cb exactly once, at once, with the current
\* state, and leaves the other subscribers as they were; every call that
\* dispatches invokes each subscribed callback exactly once for each event
\* that passed the guard and invokes no callback that is not subscribed;
\* unsubscribing removes cb alone and invokes nothing.
C38_SubscriptionLifecycle ==
  [][/\ Called("subscribe") =>
         (LET cb == lastCall'.op.callback
              seen == lastCall'.seen
          IN /\ Len(seen) >= 1
             /\ seen[1].role = "subscriber"
             /\ seen[1].nth = 0
             /\ subscribers'[seen[1].index] = cb
             /\ seen[1].given = state
             /\ Cardinality({j \in 1..Len(seen) : seen[j].nth = 0}) = 1
             /\ Without(subscribers', cb) = Without(subscribers, cb))
     /\ Called("unsubscribe") =>
         (/\ subscribers' = Without(subscribers, lastCall'.op.callback)
          /\ lastCall'.seen = << >>)
     /\ (now' = now /\ lastCall'.op.name \notin {"use", "subscribe", "unsubscribe"}) =>
         (/\ subscribers' = subscribers
          /\ AllInvoked("subscriber", Len(subscribers))
          /\ \A j \in Shown :
               lastCall'.seen[j].role = "subscriber" =>
                 lastCall'.seen[j].index \in 1..Len(subscribers))]_vars

-----------------------------------------------------------------------------
(* SpecStore: a store that is appended to before and after init, with      *)
(* flushes started at any time once the interval runs and their puts       *)
(* completing one by one; the clock moves in steps of the flush period.    *)

FlushPeriod == 2000

StoreKinds == {"BELIEF_UPDATE", "PHASE_TRANSITION", "TICK"}

KernelUnchanged ==
  UNCHANGED <<now, state, eventLog, middlewares, subscribers, userSettings, history,
              selectedPatternId, lastCall, pauseMark, ptCount, outcomes, estimator>>

PassStore == Advance({FlushPeriod}, MaxStore)

\* init() completes: the database is open and the interval is set
StoreInit ==
  /\ ~eventStore.db
  /\ eventStore' = [eventStore EXCEPT !.db = TRUE]
  /\ KernelUnchanged /\ UNCHANGED vitals

\* append(event) with an event of the current instant not appended before
StoreAppend ==
  /\ Len(eventStore.appended) < MaxAppends
  /\ \E type \in StoreKinds :
       LET event == Ev(type, now)
       IN /\ \A i \in 1..Len(eventStore.appended) : eventStore.appended[i] # event
          /\ eventStore' = append(eventStore, event)
  /\ KernelUnchanged /\ UNCHANGED vitals

\* the interval fires: flush()
StoreFlush ==
  /\ eventStore.db
  /\ eventStore.writeBuffer # << >>
  /\ eventStore' = flush(eventStore)
  /\ KernelUnchanged /\ UNCHANGED vitals

\* the oldest flush under way has its next put completed
StorePut ==
  /\ eventStore.flushes # << >>
  /\ LET batch == Head(eventStore.flushes)
         stored == put(eventStore, Head(batch))
     IN eventStore' = [stored EXCEPT !.flushes = IF Len(batch) = 1 THEN Tail(@)
                                                 ELSE <<Tail(batch)>> \o Tail(@)]
  /\ KernelUnchanged /\ UNCHANGED vitals

NextStore == PassStore \/ StoreInit \/ StoreAppend \/ StoreFlush \/ StorePut

SpecStore == Init /\ [][NextStore]_vars

-----------------------------------------------------------------------------
(* Claims about the persistent event store *)

\* the store is initialised and nothing is buffered or being written
Flushed == eventStore.db /\ eventStore.writeBuffer = << >> /\ eventStore.flushes = << >>

\* C39: once the store is initialised and its flushes are complete, every
\* event handed to append is returned by getRange over its timestamp and by
\* replay from its timestamp, and the store holds as many records as events
\* were appended: none is lost, written twice or overwritten.
C39_NoEventLost ==
  Flushed =>
    /\ \A i \in 1..Len(eventStore.appended) :
         LET event == eventStore.appended[i]
             ranged == getRange(eventStore, event.timestamp, event.timestamp)
             replayed == replay(eventStore, event.timestamp, now)
         IN /\ \E j \in 1..Len(ranged) : ranged[j] = event
            /\ \E j \in 1..Len(replayed) : replayed[j] = event
    /\ Cardinality(DOMAIN eventStore.events) = Len(eventStore.appended)

-----------------------------------------------------------------------------
(* SpecVitals: an initialised engine fed frames one after the other, as    *)
(* the camera hook feeds it, the worker answering its requests in order    *)
(* after any delay, also after the 1 s timer of a request has fired.       *)

\* init() completes: detector and worker exist
EngineInit ==
  /\ ~vitals.ready
  /\ vitals' = [vitals EXCEPT !.ready = TRUE]
  /\ KernelUnchanged /\ UNCHANGED eventStore

\* the hook's processLoop: await processFrame(video), once the frame before
\* has returned
ProcessFrame ==
  /\ vitals.ready
  /\ vitals.awaiting = 0
  /\ vitals.posted < MaxRequests
  /\ \E face \in BOOLEAN : vitals' = processFrame(vitals, face)
  /\ KernelUnchanged /\ UNCHANGED eventStore

\* the timer of the pending request fires before any message arrives
Timeout ==
  /\ vitals.awaiting # 0
  /\ vitals' = timeout(vitals)
  /\ KernelUnchanged /\ UNCHANGED eventStore

\* the worker answers its oldest request, with a result or with an error
WorkerAnswers ==
  /\ vitals.worker # << >>
  /\ \E ok \in BOOLEAN :
       vitals' = [message(vitals, Head(vitals.worker), ok) EXCEPT !.worker = Tail(@)]
  /\ KernelUnchanged /\ UNCHANGED eventStore

NextVitals == EngineInit \/ ProcessFrame \/ Timeout \/ WorkerAnswers

SpecVitals == Init /\ [][NextVitals]_vars

-----------------------------------------------------------------------------
(* Claims about the camera vitals engine *)

====
